---- MODULE Spec2Model ----
(***************************************************************************)
(* Entity resolution of tamhid92/epl-data:                                 *)
(*   - build_player_xref (backend/data-pipeline/link_understat_fbref.py),  *)
(*     which links Understat players to FBref players team by team;        *)
(*   - match_player_row and the enrichment loop of                         *)
(*     fpl/data_pipeline/init_fpl_elements.py (and its copy in             *)
(*     fpl/training/preds_to_postgres.py), which link FPL players to the   *)
(*     FBref/Understat catalog.                                            *)
(* Text is a sequence of characters (one-character strings, or a name such *)
(* as "o_acute" for a non-ASCII character).  Scores of the link module are *)
(* on the 0..100 scale, scores of the FPL module on the 0..1 scale; both   *)
(* are kept in fixed point (thousandths of a point, millionths of one).    *)
(***************************************************************************)
EXTENDS Integers, Sequences, FiniteSets, TLC

----------------------------------------------------------------------------
(* State.                                                                  *)

VARIABLES
    pc,             \* where the run is: "team", "start", "loop", "done", ...
    epl_teams,      \* the canonical team catalog
    team_standard,  \* the FBref team table: whether it exists, and its rows
    runs,           \* the runs of build_xrefs started after the first
    HAVE_RF,        \* whether rapidfuzz imported
    strict, fuzzy,  \* the thresholds of build_player_xref
    team_xref,      \* the tables read
    players,
    fbref_players,
    up,             \* the frames of build_player_xref
    fb_by_team,
    i,              \* the rows of up already processed
    xrows, umiss,   \* the lists of the loop
    minted,         \* the number of uuid4() values drawn
    player_xref,    \* the tables written
    player_xref_unmatched,
    fuzz, jellyfish, unidecode,         \* whether each optional library imported
    team_threshold, global_threshold,   \* the thresholds of main
    teams,                  \* the rows of the teams endpoint
    fpl_elements,           \* the elements of bootstrap-static
    players_list,           \* the items of the player catalog
    df,                     \* the frame of the elements
    catalog,                \* the flattened catalog
    fi,                     \* the rows of df already matched
    results,                \* the tuples match_player_row returned
    unmatched,              \* the list unmatched of main
    fpl_elements_enriched,  \* the table written
    normalized              \* the argument of a function that is called on its
                            \* own, followed by what the function returned


----------------------------------------------------------------------------
(* Generic helpers.                                                        *)

Max(a, b) == IF a >= b THEN a ELSE b
Min(a, b) == IF a <= b THEN a ELSE b

RECURSIVE Flatten(_)
Flatten(ss) == IF ss = <<>> THEN <<>> ELSE Head(ss) \o Flatten(Tail(ss))

RECURSIVE MaxOfSeq(_)
MaxOfSeq(s) == IF s = <<>> THEN 0 ELSE Max(Head(s), MaxOfSeq(Tail(s)))

Range(s) == {s[k] : k \in DOMAIN s}

\* all sequences of pairwise distinct elements of S with lo..hi elements
RECURSIVE DistinctSeqs(_, _)
DistinctSeqs(S, n) ==
    IF n = 0 THEN {<<>>}
    ELSE {Append(q, x) : q \in DistinctSeqs(S, n - 1), x \in S}
SeqsNoRepeat(S, lo, hi) ==
    {q \in UNION {DistinctSeqs(S, n) : n \in lo..hi} :
        \A a, b \in DOMAIN q : a # b => q[a] # q[b]}

----------------------------------------------------------------------------
(* Characters.  Python's str.lower, unicodedata.normalize("NFKD"), the     *)
(* ASCII encoder and the classes \w and \s of re, on the characters the    *)
(* model uses.                                                             *)

UpperLetters ==
    <<"A","B","C","D","E","F","G","H","I","J","K","L","M",
      "N","O","P","Q","R","S","T","U","V","W","X","Y","Z">>
LowerLetters ==
    <<"a","b","c","d","e","f","g","h","i","j","k","l","m",
      "n","o","p","q","r","s","t","u","v","w","x","y","z">>

\* str.lower of one character
LowerCh(c) ==
    IF \E k \in DOMAIN UpperLetters : UpperLetters[k] = c
    THEN <<LowerLetters[CHOOSE k \in DOMAIN UpperLetters : UpperLetters[k] = c]>>
    ELSE <<c>>

\* str.upper of one character
UpperCh(c) ==
    IF \E k \in DOMAIN LowerLetters : LowerLetters[k] = c
    THEN <<UpperLetters[CHOOSE k \in DOMAIN LowerLetters : LowerLetters[k] = c]>>
    ELSE <<c>>

\* NFKD of one character: o-acute decomposes into o and the combining
\* acute; o-slash has no decomposition; the script capital H (U+210B), which
\* str.lower leaves alone, has the compatibility decomposition H
NfkdCh(c) ==
    IF c = "o_acute" THEN <<"o", "acute">>
    ELSE IF c = "H_script" THEN <<"H">>
    ELSE <<c>>

\* unicodedata.combining(c) is not 0
IsCombining(c) == c = "acute"

\* unidecode of one character
UnidecodeCh(c) ==
    IF c \in {"o_acute", "o_slash"} THEN <<"o">>
    ELSE IF c = "acute" THEN <<>>
    ELSE IF c = "H_script" THEN <<"H">>
    ELSE <<c>>

\* the characters outside ASCII
NonAscii == {"o_acute", "o_slash", "acute", "H_script"}
IsAscii(c) == c \notin NonAscii

\* \s of re
IsSpace(c) == c \in {" ", "TAB"}

\* the ASCII characters that are not \w and not \s
AsciiPunct == {"'", "-", ".", ",", "&"}

\* \w of re: letters, digits and the underscore; a combining mark is not
IsWord(c) == c \notin AsciiPunct \cup {" ", "TAB", "acute"}

\* code-point order of the characters of the model (str comparison)
CharOrder ==
    <<"TAB", " ", "&", "'", ",", "-", ".">> \o UpperLetters \o <<"_">>
        \o LowerLetters \o <<"o_acute", "o_slash", "acute", "H_script">>
Ord(c) == CHOOSE k \in DOMAIN CharOrder : CharOrder[k] = c

RECURSIVE StrLess(_, _)
StrLess(a, b) ==
    IF b = <<>> THEN FALSE
    ELSE IF a = <<>> THEN TRUE
    ELSE IF Head(a) = Head(b) THEN StrLess(Tail(a), Tail(b))
    ELSE Ord(Head(a)) < Ord(Head(b))

----------------------------------------------------------------------------
(* String operations.                                                      *)

\* str.lower()
LowerStr(s) == Flatten([k \in DOMAIN s |-> LowerCh(s[k])])

\* str.upper()
UpperStr(s) == Flatten([k \in DOMAIN s |-> UpperCh(s[k])])

\* unicodedata.normalize("NFKD", s)
NfkdStr(s) == Flatten([k \in DOMAIN s |-> NfkdCh(s[k])])

\* unidecode(s)
UnidecodeStr(s) == Flatten([k \in DOMAIN s |-> UnidecodeCh(s[k])])

\* sorted(ws) of a list of strings (equal strings are kept)
RECURSIVE InsertStr(_, _)
InsertStr(sorted, w) ==
    IF sorted = <<>> THEN <<w>>
    ELSE IF StrLess(w, Head(sorted)) THEN <<w>> \o sorted
    ELSE <<Head(sorted)>> \o InsertStr(Tail(sorted), w)
RECURSIVE SortStrs(_)
SortStrs(ws) ==
    IF ws = <<>> THEN <<>> ELSE InsertStr(SortStrs(Tail(ws)), Head(ws))

RECURSIVE LStrip(_)
LStrip(s) == IF s # <<>> /\ IsSpace(Head(s)) THEN LStrip(Tail(s)) ELSE s

RECURSIVE RStrip(_)
RStrip(s) ==
    IF s # <<>> /\ IsSpace(s[Len(s)]) THEN RStrip(SubSeq(s, 1, Len(s) - 1))
    ELSE s

\* str.strip()
Strip(s) == RStrip(LStrip(s))

\* re.sub(r"\s+", " ", s)
RECURSIVE CollapseWs(_)
CollapseWs(s) ==
    IF s = <<>> THEN <<>>
    ELSE IF IsSpace(Head(s))
         THEN <<" ">> \o CollapseWs(LStrip(s))
         ELSE <<Head(s)>> \o CollapseWs(Tail(s))

\* str.split(): the words between runs of whitespace
RECURSIVE SplitWs(_, _)
SplitWs(s, cur) ==
    IF s = <<>> THEN (IF cur = <<>> THEN <<>> ELSE <<cur>>)
    ELSE IF IsSpace(Head(s))
         THEN (IF cur = <<>> THEN <<>> ELSE <<cur>>) \o SplitWs(Tail(s), <<>>)
         ELSE SplitWs(Tail(s), Append(cur, Head(s)))
Split(s) == SplitWs(s, <<>>)

\* " ".join(words)
RECURSIVE JoinSp(_)
JoinSp(ws) ==
    IF ws = <<>> THEN <<>>
    ELSE IF Len(ws) = 1 THEN ws[1]
    ELSE ws[1] \o <<" ">> \o JoinSp(Tail(ws))

\* sorted(S) of a set of strings
RECURSIVE SortedStrs(_)
SortedStrs(S) ==
    IF S = {} THEN <<>>
    ELSE LET m == CHOOSE x \in S : \A y \in S \ {x} : StrLess(x, y)
         IN  <<m>> \o SortedStrs(S \ {m})

----------------------------------------------------------------------------
(* link_understat_fbref.py: normalisation.                                 *)

\* the text written for a missing value (None)
None == <<"N/A:none">>

\* _punct.sub(" ", s): every character outside \w and \s becomes a space
PunctToSpace(s) ==
    [k \in DOMAIN s |-> IF IsWord(s[k]) \/ IsSpace(s[k]) THEN s[k] ELSE " "]

\* _norm: strip, lower, NFKD, drop what is not ASCII, punctuation to
\* spaces, whitespace collapsed, strip
_norm(s) ==
    IF s = None THEN <<>>
    ELSE LET s1 == LowerStr(Strip(s))
             s2 == SelectSeq(NfkdStr(s1), IsAscii)
             s3 == PunctToSpace(s2)
         IN  Strip(CollapseWs(s3))

S_Spurs == <<"S","p","u","r","s">>
S_Tottenham == <<"T","o","t","t","e","n","h","a","m">>
S_ManUtd == <<"M","a","n"," ","U","t","d">>
S_ManchesterUnited ==
    <<"M","a","n","c","h","e","s","t","e","r"," ","U","n","i","t","e","d">>

\* ALIASES: the keys are written as the providers write them
ALIASES ==
    (<<"N","e","w","c","a","s","t","l","e"," ","U","t","d">>
            :> <<"N","e","w","c","a","s","t","l","e"," ","U","n","i","t","e","d">>)
        @@ (<<"N","o","t","t","'","h","a","m"," ","F","o","r","e","s","t">>
            :> <<"N","o","t","t","i","n","g","h","a","m"," ","F","o","r","e","s","t">>)
        @@ (S_ManUtd :> S_ManchesterUnited)
        @@ (<<"M","a","n"," ","C","i","t","y">>
            :> <<"M","a","n","c","h","e","s","t","e","r"," ","C","i","t","y">>)
        @@ (S_Spurs :> S_Tottenham)
        @@ (<<"W","o","l","v","e","s">>
            :> <<"W","o","l","v","e","r","h","a","m","p","t","o","n"," ","W","a","n","d","e","r","e","r","s">>)
        @@ (<<"L","e","e","d","s"," ","U","n","i","t","e","d">>
            :> <<"L","e","e","d","s">>)

\* _norm_team: ALIASES.get(_norm(s), _norm(s))
_norm_team(s) ==
    LET s2 == _norm(s)
    IN  IF s2 \in DOMAIN ALIASES THEN ALIASES[s2] ELSE s2

----------------------------------------------------------------------------
(* String similarity.  Scores of _sim are in thousandths of a point of the *)
(* 0..100 scale.                                                           *)

\* one row of the longest-common-subsequence table: prev is the row above,
\* cur the part of this row already computed
RECURSIVE LcsRow(_, _, _, _)
LcsRow(prev, c, b, cur) ==
    LET j == Len(cur) + 1
    IN  IF j > Len(b) THEN cur
        ELSE LET diag == IF j = 1 THEN 0 ELSE prev[j - 1]
                 left == IF j = 1 THEN 0 ELSE cur[j - 1]
                 v    == IF c = b[j] THEN diag + 1 ELSE Max(prev[j], left)
             IN  LcsRow(prev, c, b, Append(cur, v))

RECURSIVE LcsRows(_, _, _)
LcsRows(a, b, prev) ==
    IF a = <<>> THEN prev
    ELSE LcsRows(Tail(a), b, LcsRow(prev, Head(a), b, <<>>))

LcsLen(a, b) ==
    IF a = <<>> \/ b = <<>> THEN 0
    ELSE LcsRows(a, b, [j \in 1..Len(b) |-> 0])[Len(b)]

\* rapidfuzz Indel distance: insertions and deletions only
IndelDistance(a, b) == Len(a) + Len(b) - 2 * LcsLen(a, b)

\* rapidfuzz _norm_distance: 100 - 100 * dist / lensum
NormDistance(dist, lensum) ==
    IF lensum > 0 THEN ((lensum - dist) * 100000) \div lensum ELSE 100000

\* rapidfuzz fuzz.token_set_ratio
token_set_ratio(s1, s2) ==
    LET ta == Range(Split(s1))
        tb == Range(Split(s2))
        sect == ta \cap tb
        ja == JoinSp(SortedStrs(ta \ tb))
        jb == JoinSp(SortedStrs(tb \ ta))
        sl == Len(JoinSp(SortedStrs(sect)))
        sep == IF sl # 0 THEN 1 ELSE 0
        sab == sl + sep + Len(ja)
        sba == sl + sep + Len(jb)
        res == NormDistance(IndelDistance(ja, jb), sab + sba)
    IN  IF s1 = <<>> \/ s2 = <<>> \/ ta = {} \/ tb = {} THEN 0
        ELSE IF sect # {} /\ (ta \ tb = {} \/ tb \ ta = {}) THEN 100000
        ELSE IF sl = 0 THEN res
        ELSE Max(res, Max(NormDistance(sep + Len(ja), sl + sab),
                          NormDistance(sep + Len(jb), sl + sba)))

\* the length of the common run of a from i and b from j
RECURSIVE RunLen(_, _, _, _)
RunLen(a, ix, b, j) ==
    IF ix > Len(a) \/ j > Len(b) \/ a[ix] # b[j] THEN 0
    ELSE 1 + RunLen(a, ix + 1, b, j + 1)

\* difflib find_longest_match: the longest block, the earliest in a, and
\* among those the earliest in b
LongestMatch(a, b) ==
    LET blocks == {<<ix, j, RunLen(a, ix, b, j)>> : ix \in DOMAIN a, j \in DOMAIN b}
    IN  CHOOSE t \in blocks :
            \A u \in blocks :
                \/ t[3] > u[3]
                \/ t[3] = u[3] /\ t[1] < u[1]
                \/ t[3] = u[3] /\ t[1] = u[1] /\ t[2] <= u[2]

\* difflib get_matching_blocks: the number of matched characters
RECURSIVE MatchedChars(_, _)
MatchedChars(a, b) ==
    IF a = <<>> \/ b = <<>> THEN 0
    ELSE LET t == LongestMatch(a, b)
         IN  IF t[3] = 0 THEN 0
             ELSE t[3]
                  + MatchedChars(SubSeq(a, 1, t[1] - 1), SubSeq(b, 1, t[2] - 1))
                  + MatchedChars(SubSeq(a, t[1] + t[3], Len(a)),
                                 SubSeq(b, t[2] + t[3], Len(b)))

\* 100.0 * difflib.SequenceMatcher(None, a, b).ratio()
SequenceMatcherRatio(a, b) ==
    IF Len(a) + Len(b) = 0 THEN 100000
    ELSE (2 * MatchedChars(a, b) * 100000) \div (Len(a) + Len(b))

\* _sim: rapidfuzz when it imports, difflib otherwise
_sim(rf, a, b) ==
    IF rf THEN token_set_ratio(a, b) ELSE SequenceMatcherRatio(a, b)

----------------------------------------------------------------------------
(* init_fpl_elements.py (and its copy in preds_to_postgres.py):            *)
(* normalisation and name helpers.  ud, fz and jf tell whether unidecode,  *)
(* rapidfuzz and jellyfish imported.                                       *)

\* _strip_accents: unidecode when it imports, otherwise NFKD without the
\* combining characters
_strip_accents(ud, s) ==
    IF ud THEN UnidecodeStr(s)
    ELSE SelectSeq(NfkdStr(s), LAMBDA c : ~IsCombining(c))

\* _PUNCT_RE.sub(" ", s): what is not \w, \s or a hyphen becomes a space
PunctToSpaceKeepHyphen(s) ==
    [k \in DOMAIN s |->
        IF IsWord(s[k]) \/ IsSpace(s[k]) \/ s[k] = "-" THEN s[k] ELSE " "]

\* norm
norm(ud, s) ==
    IF s = None THEN <<>>
    ELSE Strip(CollapseWs(PunctToSpaceKeepHyphen(LowerStr(_strip_accents(ud, s)))))

\* tokens
tokens(ud, s) == Split(norm(ud, s))

\* first_last: <<first, last>>
first_last(ud, s) ==
    LET ts == tokens(ud, s)
    IN  IF ts = <<>> THEN << <<>>, <<>> >> ELSE <<ts[1], ts[Len(ts)]>>

CONNECTORS ==
    {<<"d","a">>, <<"d","a","s">>, <<"d","e">>, <<"d","e","l">>, <<"d","e","l","l","a">>,
      <<"d","e","r">>, <<"d","i">>, <<"d","o">>, <<"d","o","s">>, <<"d","u">>, <<"l","a">>,
      <<"l","e">>, <<"m","a","c">>, <<"m","c">>, <<"v","a","n">>, <<"v","o","n">>}

\* prune_connectors
prune_connectors(ts) == SelectSeq(ts, LAMBDA t : t \notin CONNECTORS)

\* s.split(sep) for a one-character separator
RECURSIVE SplitOnFrom(_, _, _)
SplitOnFrom(s, sep, cur) ==
    IF s = <<>> THEN <<cur>>
    ELSE IF Head(s) = sep THEN <<cur>> \o SplitOnFrom(Tail(s), sep, <<>>)
    ELSE SplitOnFrom(Tail(s), sep, Append(cur, Head(s)))
SplitOn(s, sep) == SplitOnFrom(s, sep, <<>>)

\* hyphen_splits: the sorted set of the pieces
hyphen_splits(ud, name) ==
    LET n == norm(ud, name)
        parts == SelectSeq(SplitOn(n, "-"), LAMBDA q : q # <<>>)
    IN  IF \A k \in DOMAIN n : n[k] # "-" THEN <<n>>
        ELSE SortedStrs({JoinSp(parts)} \cup Range(parts))

NICKNAMES ==
    (<<"a","l","e","x">> :> <<"a","l","e","x","a","n","d","e","r">>)
        @@ (<<"s","a","s","h","a">> :> <<"a","l","e","x","a","n","d","e","r">>)
        @@ (<<"w","i","l","l">> :> <<"w","i","l","l","i","a","m">>)
        @@ (<<"b","i","l","l">> :> <<"w","i","l","l","i","a","m">>)
        @@ (<<"b","i","l","l","y">> :> <<"w","i","l","l","i","a","m">>)
        @@ (<<"l","i","a","m">> :> <<"w","i","l","l","i","a","m">>)
        @@ (<<"b","e","n">> :> <<"b","e","n","j","a","m","i","n">>)
        @@ (<<"j","a","m","i","e">> :> <<"j","a","m","e","s">>)
        @@ (<<"j","i","m">> :> <<"j","a","m","e","s">>)
        @@ (<<"j","o","e">> :> <<"j","o","s","e","p","h">>)
        @@ (<<"j","o","s","h">> :> <<"j","o","s","h","u","a">>)
        @@ (<<"m","a","t","t","y">> :> <<"m","a","t","t","h","e","w">>)
        @@ (<<"m","a","t","t">> :> <<"m","a","t","t","h","e","w">>)
        @@ (<<"t","o","n","i">> :> <<"a","n","t","o","n","i","o">>)
        @@ (<<"t","o","n","y">> :> <<"a","n","t","h","o","n","y">>)
        @@ (<<"h","a","r","r","y">> :> <<"h","a","r","o","l","d">>)
        @@ (<<"n","i","c","k">> :> <<"n","i","c","h","o","l","a","s">>)
        @@ (<<"n","i","c","o">> :> <<"n","i","c","h","o","l","a","s">>)
        @@ (<<"l","u","i","z">> :> <<"l","u","i","s">>)
        @@ (<<"l","u","c","h","o">> :> <<"l","u","i","s">>)

\* f"{a} {b}".strip()
PairStrip(a, b) == Strip(a \o <<" ">> \o b)

\* expand_given
expand_given(ud, name) ==
    LET fl == first_last(ud, name)
    IN  IF fl[1] \in DOMAIN NICKNAMES
        THEN <<name, PairStrip(NICKNAMES[fl[1]], fl[2])>>
        ELSE <<name>>

\* name_variants: the sorted list of the variants that are not empty
name_variants(ud, name) ==
    LET base == norm(ud, name)
        ts == tokens(ud, name)
        ts_nc == prune_connectors(ts)
        fl == IF ts_nc # <<>> THEN <<ts_nc[1], ts_nc[Len(ts_nc)]>>
              ELSE first_last(ud, name)
        f == fl[1]
        l == fl[2]
        joined == IF ts_nc # <<>> THEN JoinSp(ts_nc) ELSE base
        v1 == {joined}
        v2 == IF f # <<>> \/ l # <<>>
              THEN {PairStrip(f, l),
                    IF f # <<>> THEN PairStrip(<<f[1]>>, l) ELSE l,
                    l,
                    PairStrip(l, f)}
              ELSE {}
        v3 == Range(hyphen_splits(ud, joined))
        v4 == {norm(ud, a) : a \in Range(expand_given(ud, PairStrip(f, l)))}
    IN  IF base = <<>> THEN <<>>
        ELSE SortedStrs((v1 \cup v2 \cup v3 \cup v4) \ {<<>>})

SHORT_TO_NAME ==
    (<<"A","R","S">> :> <<"A","r","s","e","n","a","l">>)
        @@ (<<"A","V","L">> :> <<"A","s","t","o","n"," ","V","i","l","l","a">>)
        @@ (<<"B","O","U">> :> <<"B","o","u","r","n","e","m","o","u","t","h">>)
        @@ (<<"B","R","E">> :> <<"B","r","e","n","t","f","o","r","d">>)
        @@ (<<"B","H","A">> :> <<"B","r","i","g","h","t","o","n">>)
        @@ (<<"B","U","R">> :> <<"B","u","r","n","l","e","y">>)
        @@ (<<"C","H","E">> :> <<"C","h","e","l","s","e","a">>)
        @@ (<<"C","R","Y">> :> <<"C","r","y","s","t","a","l"," ","P","a","l","a","c","e">>)
        @@ (<<"E","V","E">> :> <<"E","v","e","r","t","o","n">>)
        @@ (<<"F","U","L">> :> <<"F","u","l","h","a","m">>)
        @@ (<<"L","E","E">> :> <<"L","e","e","d","s">>)
        @@ (<<"L","I","V">> :> <<"L","i","v","e","r","p","o","o","l">>)
        @@ (<<"M","C","I">> :> <<"M","a","n","c","h","e","s","t","e","r"," ","C","i","t","y">>)
        @@ (<<"M","U","N">> :> <<"M","a","n","c","h","e","s","t","e","r"," ","U","n","i","t","e","d">>)
        @@ (<<"N","E","W">> :> <<"N","e","w","c","a","s","t","l","e"," ","U","n","i","t","e","d">>)
        @@ (<<"N","F","O">> :> <<"N","o","t","t","i","n","g","h","a","m"," ","F","o","r","e","s","t">>)
        @@ (<<"T","O","T">> :> <<"T","o","t","t","e","n","h","a","m">>)
        @@ (<<"W","H","U">> :> <<"W","e","s","t"," ","H","a","m">>)
        @@ (<<"W","O","L">> :> <<"W","o","l","v","e","r","h","a","m","p","t","o","n"," ","W","a","n","d","e","r","e","r","s">>)
        @@ (<<"L","E","I">> :> <<"L","e","i","c","e","s","t","e","r"," ","C","i","t","y">>)
        @@ (<<"S","O","U">> :> <<"S","o","u","t","h","a","m","p","t","o","n">>)
        @@ (<<"N","O","R">> :> <<"N","o","r","w","i","c","h"," ","C","i","t","y">>)
        @@ (<<"W","A","T">> :> <<"W","a","t","f","o","r","d">>)
        @@ (<<"S","H","E">> :> <<"S","h","e","f","f","i","e","l","d"," ","U","n","i","t","e","d">>)
        @@ (<<"I","P","S">> :> <<"I","p","s","w","i","c","h"," ","T","o","w","n">>)
        @@ (<<"S","U","N">> :> <<"S","u","n","d","e","r","l","a","n","d">>)

TEAM_ALIASES ==
    (<<"s","p","u","r","s">> :> <<"T","o","t","t","e","n","h","a","m">>)
        @@ (<<"w","o","l","v","e","s">> :> <<"W","o","l","v","e","r","h","a","m","p","t","o","n"," ","W","a","n","d","e","r","e","r","s">>)
        @@ (<<"m","a","n"," ","c","i","t","y">> :> <<"M","a","n","c","h","e","s","t","e","r"," ","C","i","t","y">>)
        @@ (<<"m","a","n"," ","u","t","d">> :> <<"M","a","n","c","h","e","s","t","e","r"," ","U","n","i","t","e","d">>)
        @@ (<<"m","a","n","c","h","e","s","t","e","r"," ","u","t","d">> :> <<"M","a","n","c","h","e","s","t","e","r"," ","U","n","i","t","e","d">>)
        @@ (<<"b","r","i","g","h","t","o","n"," ","&"," ","h","o","v","e"," ","a","l","b","i","o","n">> :> <<"B","r","i","g","h","t","o","n">>)
        @@ (<<"f","o","r","e","s","t">> :> <<"N","o","t","t","i","n","g","h","a","m"," ","F","o","r","e","s","t">>)
        @@ (<<"w","e","s","t"," ","h","a","m"," ","u","n","i","t","e","d">> :> <<"W","e","s","t"," ","H","a","m">>)
        @@ (<<"l","e","e","d","s"," ","u","n","i","t","e","d">> :> <<"L","e","e","d","s">>)

\* a variant of normalize_team that looks the label up as it is written
normalize_team_AsWritten(ud, raw, team_normset) ==
    IF raw = None THEN <<>>
    ELSE LET s == Strip(raw)
             code == raw
         IN  IF code \in DOMAIN SHORT_TO_NAME THEN SHORT_TO_NAME[code]
             ELSE IF norm(ud, s) \in DOMAIN TEAM_ALIASES /\ TEAM_ALIASES[norm(ud, s)] # <<>>
                  THEN TEAM_ALIASES[norm(ud, s)]
             ELSE IF norm(ud, s) \in team_normset THEN s
             ELSE s

\* normalize_team
normalize_team(ud, raw, team_normset) ==
    IF raw = None THEN <<>>
    ELSE LET s == Strip(raw)
             code == UpperStr(s)
         IN  IF code \in DOMAIN SHORT_TO_NAME THEN SHORT_TO_NAME[code]
             ELSE IF norm(ud, s) \in DOMAIN TEAM_ALIASES /\ TEAM_ALIASES[norm(ud, s)] # <<>>
                  THEN TEAM_ALIASES[norm(ud, s)]
             ELSE IF norm(ud, s) \in team_normset THEN s
             ELSE s

----------------------------------------------------------------------------
(* The string metrics of the FPL matcher, in thousandths of a point of the *)
(* 0..100 scale (1/100000 of the 0..1 scale).                              *)

\* rapidfuzz fuzz.ratio: the normalized Indel similarity
ratio(a, b) == NormDistance(IndelDistance(a, b), Len(a) + Len(b))

\* rapidfuzz fuzz.token_sort_ratio
token_sort_ratio(a, b) ==
    IF a = <<>> \/ b = <<>> THEN 0
    ELSE ratio(JoinSp(SortStrs(Split(a))), JoinSp(SortStrs(Split(b))))

\* rapidfuzz _partial_ratio_impl: s1 is the shorter string; the windows of
\* s2 are its prefixes shorter than s1, its substrings as long as s1 and its
\* suffixes up to that length; a window is tried only when its last (for a
\* suffix: first) character occurs in s1
partial_ratio_impl(s1, s2) ==
    LET len1 == Len(s1)
        len2 == Len(s2)
        chars == Range(s1)
        pre == {ratio(s1, SubSeq(s2, 1, k)) :
                   k \in {n \in 1..(len1 - 1) : s2[n] \in chars}}
        mid == {ratio(s1, SubSeq(s2, k + 1, k + len1)) :
                   k \in {n \in 0..(len2 - len1 - 1) : s2[n + len1] \in chars}}
        suf == {ratio(s1, SubSeq(s2, k + 1, len2)) :
                   k \in {n \in (len2 - len1)..(len2 - 1) : s2[n + 1] \in chars}}
        all == pre \cup mid \cup suf
    IN  IF all = {} THEN 0 ELSE CHOOSE m \in all : \A x \in all : m >= x

\* rapidfuzz fuzz.partial_ratio
partial_ratio(a, b) ==
    IF a = <<>> /\ b = <<>> THEN 100000
    ELSE IF a = <<>> \/ b = <<>> THEN 0
    ELSE LET shorter == IF Len(a) <= Len(b) THEN a ELSE b
             longer == IF Len(a) <= Len(b) THEN b ELSE a
             res == partial_ratio_impl(shorter, longer)
         IN  IF res # 100000 /\ Len(a) = Len(b)
             THEN Max(res, partial_ratio_impl(longer, shorter))
             ELSE res

\* rapidfuzz fuzz.partial_token_ratio
partial_token_ratio(a, b) ==
    LET la == SortStrs(Split(a))
        lb == SortStrs(Split(b))
        ta == Range(la)
        tb == Range(lb)
        diff_ab == SortedStrs(ta \ tb)
        diff_ba == SortedStrs(tb \ ta)
        res == partial_ratio(JoinSp(la), JoinSp(lb))
    IN  IF a = <<>> \/ b = <<>> THEN 0
        ELSE IF ta \cap tb # {} THEN 100000
        ELSE IF Len(la) = Len(diff_ab) /\ Len(lb) = Len(diff_ba) THEN res
        ELSE Max(res, partial_ratio(JoinSp(diff_ab), JoinSp(diff_ba)))

\* rapidfuzz fuzz.WRatio: UNBASE_SCALE is 0.95, PARTIAL_SCALE 0.9 or 0.6
WRatio(a, b) ==
    LET len1 == Len(a)
        len2 == Len(b)
        hi == Max(len1, len2)
        lo == Min(len1, len2)
        end_ratio == ratio(a, b)
        token_ratio == Max(token_sort_ratio(a, b), token_set_ratio(a, b))
    IN  IF a = <<>> \/ b = <<>> THEN 0
        ELSE IF 2 * hi < 3 * lo
        THEN Max(end_ratio, (token_ratio * 95) \div 100)
        ELSE IF hi < 8 * lo
        THEN Max(Max(end_ratio, (partial_ratio(a, b) * 9) \div 10),
                 (partial_token_ratio(a, b) * 855) \div 1000)
        ELSE Max(Max(end_ratio, (partial_ratio(a, b) * 6) \div 10),
                 (partial_token_ratio(a, b) * 570) \div 1000)

\* jellyfish Jaro: the flags of the characters of b matched so far, after
\* the characters of a from position i on have looked for their match
RECURSIVE JaroFlags(_, _, _, _, _)
JaroFlags(a, b, range, ix, st) ==
    IF ix > Len(a) THEN st
    ELSE LET low == Max(1, ix - range)
             hi == Min(ix + range, Len(b))
             free == {j \in low..hi : ~st.f2[j] /\ b[j] = a[ix]}
         IN  IF free = {} THEN JaroFlags(a, b, range, ix + 1, st)
             ELSE LET j == CHOOSE x \in free : \A y \in free : x <= y
                  IN  JaroFlags(a, b, range, ix + 1,
                                [f1 |-> [st.f1 EXCEPT ![ix] = TRUE],
                                 f2 |-> [st.f2 EXCEPT ![j] = TRUE]])

\* the matched characters of s in order
Flagged(s, flags) ==
    LET idx == SelectSeq([k \in DOMAIN s |-> k], LAMBDA k : flags[k])
    IN  [n \in DOMAIN idx |-> s[idx[n]]]

\* jellyfish.jaro_winkler_similarity
jaro_winkler_similarity(a, b) ==
    LET l1 == Len(a)
        l2 == Len(b)
        range == Max(0, (Max(l1, l2) \div 2) - 1)
        st == JaroFlags(a, b, range, 1,
                        [f1 |-> [k \in DOMAIN a |-> FALSE],
                         f2 |-> [k \in DOMAIN b |-> FALSE]])
        m1 == Flagged(a, st.f1)
        m2 == Flagged(b, st.f2)
        common == Len(m1)
        trans == Cardinality({k \in DOMAIN m1 : m1[k] # m2[k]}) \div 2
        weight == ((common * 100000) \div l1 + (common * 100000) \div l2
                   + ((common - trans) * 100000) \div common) \div 3
        j == Min(Min(l1, l2), 4)
        pre == Cardinality({k \in 1..j : \A n \in 1..k : a[n] = b[n]})
    IN  IF l1 = 0 \/ l2 = 0 THEN 0
        ELSE IF common = 0 THEN 0
        ELSE IF weight > 70000 /\ pre > 0
        THEN weight + (pre * (100000 - weight)) \div 10
        ELSE weight

\* jaro_winkler of the FPL matcher: jellyfish when it imports, difflib
\* otherwise
jaro_winkler(jf, a, b) ==
    IF jf THEN jaro_winkler_similarity(a, b) ELSE SequenceMatcherRatio(a, b)

Vowels == {"a", "e", "i", "o", "u"}

\* the character of s at position k, "*****" past its end
CharAt(s, k) == IF k \in DOMAIN s THEN s[k] ELSE "*****"

\* jellyfish.metaphone, one step at position i of s: <<the code letters
\* appended, the positions consumed>>
MetaphoneStep(s, ix) ==
    LET c == s[ix]
        next == CharAt(s, ix + 1)
        nextnext == CharAt(s, ix + 2)
        prev == CharAt(s, ix - 1)
    IN  IF c = next /\ c # "c" THEN << <<>>, 1 >>
        ELSE IF c \in Vowels
        THEN << IF ix = 1 \/ prev = " " THEN <<c>> ELSE <<>>, 1 >>
        ELSE IF c = "b" THEN << <<"b">>, 1 >>
        ELSE IF c = "c"
        THEN IF (next = "ix" /\ nextnext = "a") \/ next = "h" THEN << <<"x">>, 2 >>
             ELSE IF next \in {"ix", "e", "y"} THEN << <<"s">>, 2 >>
             ELSE << <<"k">>, 1 >>
        ELSE IF c = "d"
        THEN IF next = "g" /\ nextnext \in {"ix", "e", "y"} THEN << <<"j">>, 3 >>
             ELSE << <<"t">>, 1 >>
        ELSE IF c \in {"f", "j", "l", "m", "n", "r"} THEN << <<c>>, 1 >>
        ELSE IF c = "g"
        THEN IF next \in {"ix", "e", "y"} THEN << <<"j">>, 1 >>
             ELSE IF next = "h" /\ nextnext \notin Vowels THEN << <<>>, 2 >>
             ELSE << <<"k">>, 1 >>
        ELSE IF c = "h"
        THEN << IF ix = 1 \/ next \in Vowels \/ prev \notin Vowels
                THEN <<"h">> ELSE <<>>, 1 >>
        ELSE IF c = "k"
        THEN << IF ix = 1 \/ prev # "c" THEN <<"k">> ELSE <<>>, 1 >>
        ELSE IF c = "p"
        THEN IF next = "h" THEN << <<"f">>, 2 >> ELSE << <<"p">>, 1 >>
        ELSE IF c = "q" THEN << <<"k">>, 1 >>
        ELSE IF c = "s"
        THEN IF next = "h" THEN << <<"x">>, 2 >>
             ELSE IF next = "ix" /\ nextnext \in {"o", "a"} THEN << <<"x">>, 3 >>
             ELSE << <<"s">>, 1 >>
        ELSE IF c = "t"
        THEN IF next = "ix" /\ nextnext \in {"o", "a"} THEN << <<"x">>, 1 >>
             ELSE IF next = "h" THEN << <<"0">>, 2 >>
             ELSE IF next # "c" \/ nextnext # "h" THEN << <<"t">>, 1 >>
             ELSE << <<>>, 1 >>
        ELSE IF c = "v" THEN << <<"f">>, 1 >>
        ELSE IF c = "w"
        THEN IF ix = 1 /\ next = "h"
             THEN << IF nextnext \in Vowels \/ nextnext = "*****"
                     THEN <<"w">> ELSE <<>>, 2 >>
             ELSE << IF next \in Vowels \/ next = "*****"
                     THEN <<"w">> ELSE <<>>, 1 >>
        ELSE IF c = "x"
        THEN IF ix = 1
             THEN IF next = "h" \/ (next = "ix" /\ nextnext \in {"o", "a"})
                  THEN << <<"x">>, 1 >> ELSE << <<"s">>, 1 >>
             ELSE << <<"k", "s">>, 1 >>
        ELSE IF c = "y"
        THEN << IF next \in Vowels THEN <<"y">> ELSE <<>>, 1 >>
        ELSE IF c = "z" THEN << <<"s">>, 1 >>
        ELSE << <<>>, 1 >>

RECURSIVE MetaphoneFrom(_, _, _)
MetaphoneFrom(s, ix, result) ==
    IF ix > Len(s) THEN result
    ELSE IF s[ix] = " " /\ ~(s[ix] = CharAt(s, ix + 1))
    THEN MetaphoneFrom(s, ix + 1,
             IF result # <<>> /\ result[Len(result)] # " "
             THEN Append(result, " ") ELSE result)
    ELSE LET st == MetaphoneStep(s, ix)
         IN  MetaphoneFrom(s, ix + st[2], result \o st[1])

\* jellyfish.metaphone
metaphone(s) ==
    LET low == NfkdStr(LowerStr(s))
        two == SubSeq(low, 1, 2)
        cut == IF two \in {<<"k","n">>, <<"g","n">>, <<"p","n">>, <<"w","r">>, <<"a","e">>}
               THEN Tail(low) ELSE low
    IN  UpperStr(MetaphoneFrom(cut, 1, <<>>))

\* the digit jellyfish.soundex gives a letter, "" for the other characters
SoundexCode(c) ==
    IF c \in {"B", "F", "P", "V"} THEN "1"
    ELSE IF c \in {"C", "G", "J", "K", "Q", "S", "X", "Z"} THEN "2"
    ELSE IF c \in {"D", "T"} THEN "3"
    ELSE IF c = "L" THEN "4"
    ELSE IF c \in {"M", "N"} THEN "5"
    ELSE IF c = "R" THEN "6"
    ELSE ""

RECURSIVE SoundexFrom(_, _, _, _)
SoundexFrom(s, ix, last, result) ==
    IF ix > Len(s) \/ Len(result) = 4 THEN result
    ELSE LET sub == SoundexCode(s[ix])
         IN  IF sub # ""
             THEN SoundexFrom(s, ix + 1, sub,
                              IF sub # last THEN Append(result, sub) ELSE result)
             ELSE SoundexFrom(s, ix + 1,
                              IF s[ix] \in {"H", "W"} THEN last ELSE "", result)

\* jellyfish.soundex
soundex(s) ==
    IF s = <<>> THEN <<>>
    ELSE LET upper == UpperStr(NfkdStr(s))
             res == SoundexFrom(upper, 2, SoundexCode(upper[1]), <<upper[1]>>)
         IN  res \o [k \in 1..(4 - Len(res)) |-> "0"]

\* surname_phonetic: the metaphone code, the soundex code when that is
\* empty, '' without jellyfish
surname_phonetic(jf, surname) ==
    IF surname = <<>> \/ ~jf THEN <<>>
    ELSE IF metaphone(surname) # <<>> THEN metaphone(surname)
    ELSE soundex(surname)

----------------------------------------------------------------------------
(* The FPL matcher: scores are in units of 1/10000000 of the 0..1 scale.   *)

\* the libraries that imported: [fz, jf, ud] for rapidfuzz, jellyfish and
\* unidecode
Libs == [fz : BOOLEAN, jf : BOOLEAN, ud : BOOLEAN]

\* a variant of Blend that leaves the Jaro-Winkler term out
Blend_NoPrefix(ts, w, tr, jw) == Max(0, Min(10000000, 35 * ts + 25 * w + 20 * tr))

\* lines 279-280: 0.35*ts + 0.25*w + 0.20*tr + 0.20*jw, clipped to 0..1
Blend(ts, w, tr, jw) ==
    Max(0, Min(10000000, 35 * ts + 25 * w + 20 * tr + 20 * jw))

\* lines 265-280 of score_pair, for the normalized names a_n and b_n;
\* without rapidfuzz w, ts and tr are all the difflib ratio
ScoreNormed(lib, a_n, b_n) ==
    IF a_n = <<>> \/ b_n = <<>> THEN 0
    ELSE IF lib.fz
    THEN Blend(token_set_ratio(a_n, b_n), WRatio(a_n, b_n),
               token_sort_ratio(a_n, b_n), jaro_winkler(lib.jf, a_n, b_n))
    ELSE Blend(SequenceMatcherRatio(a_n, b_n), SequenceMatcherRatio(a_n, b_n),
               SequenceMatcherRatio(a_n, b_n), jaro_winkler(lib.jf, a_n, b_n))

score_pair(lib, a, b) == ScoreNormed(lib, norm(lib.ud, a), norm(lib.ud, b))

\* the bonus of score_player: 0.05 for the same surname, 0.03 for the same
\* first initial, 0.03 for the same phonetic code of the surname
Bonus(lib, pred_name, cand_row) ==
    LET fl == first_last(lib.ud, pred_name)
        f_pred == fl[1]
        l_pred == fl[2]
        l_cand == cand_row.surname
        ph_pred == surname_phonetic(lib.jf, l_pred)
        ph_cand == cand_row.surname_phon
        cf == first_last(lib.ud, cand_row.player_name)[1]
    IN  (IF l_pred # <<>> /\ l_cand # <<>> /\ l_pred = l_cand THEN 500000 ELSE 0)
        + (IF f_pred # <<>> /\ cand_row.player_name # <<>> /\ cf # <<>>
              /\ f_pred[1] = cf[1] THEN 300000 ELSE 0)
        + (IF ph_pred # <<>> /\ ph_cand # <<>> /\ ph_pred = ph_cand THEN 300000 ELSE 0)

\* the loop of score_player over the variants vs from position k on, with
\* the best score and variant so far
\* lines 305-307: the strictly better of the best so far and variant v
BetterVariant(best, s_final, v) ==
    IF s_final > best.score THEN [score |-> s_final, best_var |-> v] ELSE best

RECURSIVE BestVariant(_, _, _, _, _, _)
BestVariant(lib, pred_name, bonus, vs, k, best) ==
    IF k > Len(vs) THEN best
    ELSE BestVariant(lib, pred_name, bonus, vs, k + 1,
                     BetterVariant(best,
                                   Min(10000000, score_pair(lib, pred_name, vs[k]) + bonus),
                                   vs[k]))

\* score_player: [score, best_var]
score_player(lib, pred_name, cand_row) ==
    LET vs == IF cand_row.variants # <<>> THEN cand_row.variants
              ELSE <<cand_row.player_name>>
    IN  BestVariant(lib, pred_name, Bonus(lib, pred_name, cand_row), vs, 1,
                    [score |-> 0, best_var |-> <<>>])

\* one row of flatten_players for an item of the player catalog
FlatRow(lib, item) ==
    LET cat_team == IF item.fbref_team # <<>> THEN item.fbref_team
                    ELSE item.understat_team
        l == first_last(lib.ud, item.player_name)[2]
    IN  [player_name |-> item.player_name,
         catalog_team_name |-> cat_team,
         fbref_id |-> item.fbref_id,
         understat_id |-> item.understat_id,
         norm_player |-> norm(lib.ud, item.player_name),
         tok_player |-> JoinSp(tokens(lib.ud, item.player_name)),
         norm_team |-> norm(lib.ud, cat_team),
         surname |-> l,
         surname_phon |-> surname_phonetic(lib.jf, l),
         variants |-> name_variants(lib.ud, item.player_name)]

\* drop_duplicates(subset=["player_name","fbref_id","understat_id"],
\* keep="first")
RECURSIVE DropDupPlayers(_, _)
DropDupPlayers(rows, seen) ==
    IF rows = <<>> THEN <<>>
    ELSE LET key == <<Head(rows).player_name, Head(rows).fbref_id,
                      Head(rows).understat_id>>
         IN  IF key \in seen THEN DropDupPlayers(Tail(rows), seen)
             ELSE <<Head(rows)>> \o DropDupPlayers(Tail(rows), seen \cup {key})

----------------------------------------------------------------------------
(* The tables build_player_xref reads.                                     *)

\* the missing value of a merged column (NaN)
NaN == "NaN"

S_Hull == <<"H","u","l","l">>
S_HULL == <<"H","U","L","L">>
S_HullC == <<"H","u","l","l"," ","C">>
S_MoSalah == <<"M","o"," ","S","a","l","a","h">>
S_MoSalahAcute == <<"M","o_acute"," ","S","a","l","a","h">>
S_MoSala == <<"M","o"," ","S","a","l","a">>
S_SalahMo == <<"S","a","l","a","h"," ","M","o">>
S_Sala == <<"S","a","l","a">>
S_FM == <<"F"," ","M">>
S_FW == <<"F","W">>
S_DF == <<"D","F">>
S_GK == <<"G","K">>

TxRow(tid, tname, fid, fname) ==
    [team_id |-> tid, team_name |-> tname, fbref_team_id |-> fid, fbref_name |-> fname]

\* team_xref tables: one label per team; two labels resolved to the same
\* team; two canonical teams whose names normalize alike; a team missing
TxTables ==
    { << TxRow("1", S_Hull, "h1", S_Hull), TxRow("2", S_Spurs, "s1", S_Spurs) >>,
      << TxRow("1", S_Hull, "h1", S_Hull), TxRow("1", S_Hull, "h2", S_HullC),
         TxRow("2", S_Spurs, "s1", S_Spurs) >>,
      << TxRow("1", S_Hull, "h1", S_Hull), TxRow("3", S_HULL, "h3", S_HULL) >>,
      << TxRow("2", S_Spurs, "s1", S_Spurs) >> }

URow(id, name, team, pos) ==
    [id |-> id, player_name |-> name, team_title |-> team, position |-> pos]

\* rows of the players table (Understat); position is coalesced to ''
PlayerPool ==
    { URow("u1", S_MoSalah, S_Hull, S_FM),
      URow("u2", S_MoSalah, S_Hull, <<>>),
      URow("u3", S_MoSala, S_HULL, S_GK),
      URow("u4", S_MoSalah, S_Hull, S_GK) }

FRow(id, name, team, pos) ==
    [fbref_player_id |-> id, fbref_name |-> name, fbref_team |-> team, fbref_pos |-> pos]

\* rows of the FBref player table; fbref_pos may be NULL
FbrefPool ==
    { FRow("f1", S_MoSalah, S_Hull, S_FW),
      FRow("f2", S_MoSalahAcute, S_Hull, S_DF),
      FRow("f3", S_SalahMo, S_Hull, None),
      FRow("f4", S_MoSalah, S_Spurs, S_GK),
      FRow("f5", S_MoSalah, S_HullC, S_FW),
      FRow("f6", S_Sala, S_Hull, S_DF) }

\* the most rows of the players table and of the FBref player table
MaxPlayers == 2
MaxFb == 2

\* (strict, fuzzy) in thousandths of a point: the defaults, and a pair with
\* strict < fuzzy
ThresholdPairs == { <<97000, 90000>>, <<90000, 95000>> }

----------------------------------------------------------------------------
(* build_player_xref: the frames.                                          *)

\* tx['norm_team'] = tx['team_name'].map(_norm_team)
TxNorm(tx) ==
    [k \in DOMAIN tx |-> tx[k] @@ [norm_team |-> _norm_team(tx[k].team_name)]]

\* tx[['team_id','norm_team']].drop_duplicates('team_id'): the first row of
\* each team_id
RECURSIVE DropDupTeamId(_, _)
DropDupTeamId(tx, seen) ==
    IF tx = <<>> THEN <<>>
    ELSE IF Head(tx).team_id \in seen THEN DropDupTeamId(Tail(tx), seen)
    ELSE <<[team_id |-> Head(tx).team_id, norm_team |-> Head(tx).norm_team]>>
         \o DropDupTeamId(Tail(tx), seen \cup {Head(tx).team_id})

\* up.merge(..., on='norm_team', how='left') for one players row: one row
\* per matching row of the right side, one row with NaN when none matches
UpRowsOf(p, right) ==
    LET nt == _norm_team(p.team_title)
        hits == SelectSeq(right, LAMBDA t : t.norm_team = nt)
        base == [understat_player_id |-> p.id, player_name |-> p.player_name,
                 position |-> p.position, norm_name |-> _norm(p.player_name),
                 norm_team |-> nt]
    IN  IF hits = <<>> THEN << base @@ [understat_team_id |-> NaN] >>
        ELSE [k \in DOMAIN hits |-> base @@ [understat_team_id |-> hits[k].team_id]]

\* the frame up of build_player_xref; tx carries norm_team
BuildUp(pl, tx) ==
    LET right == DropDupTeamId(tx, {})
    IN  Flatten([k \in DOMAIN pl |-> UpRowsOf(pl[k], right)])

\* fp.merge(tx[['fbref_team_id','norm_team','team_id']], on='norm_team',
\* how='left') for one FBref row
FpRowsOf(f, tx) ==
    LET nt == _norm_team(f.fbref_team)
        hits == SelectSeq(tx, LAMBDA t : t.norm_team = nt)
        base == [fbref_player_id |-> f.fbref_player_id, fbref_name |-> f.fbref_name,
                 fbref_pos |-> f.fbref_pos, norm_name |-> _norm(f.fbref_name),
                 norm_team |-> nt]
    IN  IF hits = <<>>
        THEN << base @@ [fbref_team_id |-> NaN, fbref_team_id_canon |-> NaN] >>
        ELSE [k \in DOMAIN hits |->
                base @@ [fbref_team_id |-> hits[k].fbref_team_id,
                         fbref_team_id_canon |-> hits[k].team_id]]

\* the frame fp of build_player_xref; tx carries norm_team
BuildFp(fb, tx) == Flatten([k \in DOMAIN fb |-> FpRowsOf(fb[k], tx)])

\* {t: df for t, df in fp.groupby('fbref_team_id_canon')}: NaN keys are
\* dropped, the rows of a group keep their order
GroupByTeam(fp) ==
    [t \in {fp[k].fbref_team_id_canon : k \in DOMAIN fp} \ {NaN} |->
        SelectSeq(fp, LAMBDA f : f.fbref_team_id_canon = t)]

----------------------------------------------------------------------------
(* build_player_xref: the decision for one row of up.                      *)

\* a variant of Cands that searches every bucket when the team has none
Cands_GlobalFallback(buckets, u_team) ==
    IF u_team \in DOMAIN buckets THEN buckets[u_team]
    ELSE Flatten([k \in 1..Cardinality(DOMAIN buckets) |->
                     buckets[SortedStrs({<<t>> : t \in DOMAIN buckets})[k][1]]])

\* a variant of Cands that does not block by team
Cands_Unblocked(buckets, u_team) ==
    Flatten([k \in 1..Cardinality(DOMAIN buckets) |->
                buckets[SortedStrs({<<t>> : t \in DOMAIN buckets})[k][1]]])

\* fb_by_team.get(u_team): no bucket (None) is the empty sequence; NaN is
\* the key of no bucket
Cands(buckets, u_team) ==
    IF u_team \in DOMAIN buckets THEN buckets[u_team] ELSE <<>>

\* cands[cands['norm_name'] == u_name]
ExactRows(cands, u_name) == SelectSeq(cands, LAMBDA f : f.norm_name = u_name)

\* (r.get('position') or "").lower()[:1]
PosPrefix(position) ==
    LET low == LowerStr(position)
    IN  IF low = <<>> THEN <<>> ELSE <<low[1]>>

\* ex2['fbref_pos'].fillna("").str.lower().str.startswith(pos)
PosMatch(f, pos) ==
    LET low == IF f.fbref_pos = None THEN <<>> ELSE LowerStr(f.fbref_pos)
    IN  Len(low) >= Len(pos) /\ SubSeq(low, 1, Len(pos)) = pos

\* a variant of TiebreakChoices that ignores the position
TiebreakChoices_First(exact, pos) == {exact[1]}

\* ex2.sort_values(by=['pos_match'], ascending=False).iloc[0] when pos is
\* not empty, exact.iloc[0] otherwise.  The sort is numpy's quicksort,
\* which orders up to 16 rows by insertion and so keeps equal keys in input
\* order; above that the order of equal keys is not fixed.
TiebreakChoices(exact, pos) ==
    LET hits == SelectSeq(exact, LAMBDA f : PosMatch(f, pos))
    IN  IF pos = <<>> THEN {exact[1]}
        ELSE IF Len(exact) <= 16
             THEN {IF hits # <<>> THEN hits[1] ELSE exact[1]}
             ELSE IF hits # <<>> THEN Range(hits) ELSE Range(exact)

\* _sim for the normalized names of the two player tables, tabulated once:
\* the key is <<rf, u_name, n>>
SimMemo ==
    [k \in {<<rf, _norm(p.player_name), _norm(f.fbref_name)>> :
                rf \in BOOLEAN, p \in PlayerPool, f \in FbrefPool} |->
        _sim(k[1], k[2], k[3])]

\* cand['score'] = cand['norm_name'].map(lambda n: _sim(u_name, n))
Scores(rf, cands, u_name) ==
    [k \in DOMAIN cands |-> SimMemo[<<rf, u_name, cands[k].norm_name>>]]

\* a variant of TopChoices that takes the first row without sorting
TopChoices_First(rf, cands, u_name) ==
    {[row |-> cands[1], k |-> 1, score |-> _sim(rf, u_name, cands[1].norm_name)]}

\* cand.sort_values('score', ascending=False): the rows of the highest
\* score, each with its place in cands and its score
TopChoices(rf, cands, u_name) ==
    LET sc == Scores(rf, cands, u_name)
        best == MaxOfSeq(sc)
    IN  {[row |-> cands[k], k |-> k, score |-> best] :
            k \in {j \in DOMAIN cands : sc[j] = best}}

\* the orders in which argsort (numpy's quicksort on the float scores) may
\* leave equal keys: the order of the input, as the insertion sort of short
\* arrays does, or the reverse.  The order is a property of the numpy build
\* and of the machine; it is not fixed by pandas.
TieOrders == {"input", "reversed"}

\* a variant of TopChoice in which equal keys come out in any order
TopChoice_AnyOrder(ties, tops) == tops

\* iloc[0] of the sorted frame: the row that a build of tie order ties puts
\* first among the rows of the highest score
TopChoice(ties, tops) ==
    {t \in tops : \A o \in tops : IF ties = "input" THEN t.k <= o.k ELSE t.k >= o.k}

\* a variant of FuzzyMethod whose comparisons are reversed
FuzzyMethod_Reversed(score, strict_, fuzzy_) ==
    IF score <= strict_ THEN "fuzzy_strict_same_team"
    ELSE IF score <= fuzzy_ THEN "fuzzy_same_team"
    ELSE ""

\* the method of the fuzzy step, "" when the row is rejected
FuzzyMethod(score, strict_, fuzzy_) ==
    IF score >= strict_ THEN "fuzzy_strict_same_team"
    ELSE IF score >= fuzzy_ THEN "fuzzy_same_team"
    ELSE ""

\* the row appended to xrows (canonical_player_id is added by the action)
XRow(r, f, method, confidence) ==
    [understat_player_id |-> r.understat_player_id,
     fbref_player_id |-> f.fbref_player_id,
     understat_name |-> r.player_name,
     fbref_name |-> f.fbref_name,
     understat_team_id |-> r.understat_team_id,
     fbref_team_id |-> f.fbref_team_id_canon,
     method |-> method,
     confidence |-> confidence]

\* one pass of the loop body for row r on a build of tie order ties: its
\* outcome, [to |-> "xrows" or "umiss", branch, rec], as a set
DecideFor(ties, r, buckets, rf, strict_, fuzzy_) ==
    LET cands == Cands(buckets, r.understat_team_id)
        exact == ExactRows(cands, r.norm_name)
    IN  IF cands = <<>>
        THEN {[to |-> "umiss", branch |-> "no_team_candidates",
               rec |-> [understat_player_id |-> r.understat_player_id,
                        player_name |-> r.player_name,
                        understat_team_id |-> r.understat_team_id,
                        reason |-> "no_team_candidates"]]}
        ELSE IF Len(exact) = 1
        THEN {[to |-> "xrows", branch |-> "exact",
               rec |-> XRow(r, exact[1], "exact_norm_same_team", 100000)]}
        ELSE IF Len(exact) > 1
        THEN {[to |-> "xrows", branch |-> "tiebreak",
               rec |-> XRow(r, ex, "exact_norm_same_team_tiebreak", 99000)] :
                 ex \in TiebreakChoices(exact, PosPrefix(r.position))}
        ELSE {IF FuzzyMethod(top.score, strict_, fuzzy_) # ""
              THEN [to |-> "xrows", branch |-> "fuzzy",
                    rec |-> XRow(r, top.row,
                                 FuzzyMethod(top.score, strict_, fuzzy_), top.score)]
              ELSE [to |-> "umiss", branch |-> "low_score",
                    rec |-> [understat_player_id |-> r.understat_player_id,
                             player_name |-> r.player_name,
                             understat_team_id |-> r.understat_team_id,
                             best_candidate |-> top.row.fbref_name,
                             best_score |-> top.score,
                             reason |-> "low_score"]] :
                 top \in TopChoice(ties, TopChoices(rf, cands, r.norm_name))}

\* one pass of the loop body for row r: the set of its possible outcomes
Decide(r, buckets, rf, strict_, fuzzy_) ==
    UNION {DecideFor(ties, r, buckets, rf, strict_, fuzzy_) : ties \in TieOrders}

----------------------------------------------------------------------------
(* The inputs of the FPL enrichment run.                                   *)

S_Ben == <<"B","e","n">>
S_Mee == <<"M","e","e">>
S_Moe == <<"M","o","e">>
S_BenMee == <<"B","e","n"," ","M","e","e">>
S_BenMoe == <<"B","e","n"," ","M","o","e">>
S_BenMoeSlash == <<"B","e","n"," ","M","o_slash","e">>
S_TimReid == <<"T","i","m"," ","R","e","i","d">>
S_Leeds == <<"L","e","e","d","s">>
S_Everton == <<"E","v","e","r","t","o","n">>

\* rows of the teams endpoint, as fetch_teams keeps them
TeamRow(id, name) == [team_id |-> id, team_name |-> name]

\* the answers of the teams endpoint: no team, or the teams of the model
TeamTables ==
    { <<>>,
      << TeamRow("1", S_Leeds), TeamRow("2", S_Tottenham), TeamRow("3", S_Everton) >> }

\* an element of bootstrap-static with the name of its team ('' when the
\* team id is unknown)
Element(fn, sn, web, team) ==
    [first_name |-> fn, second_name |-> sn, web_name |-> web, team_name |-> team]

ElementPool ==
    { Element(S_Ben, S_Mee, S_Mee, S_Leeds),
      Element(S_Ben, S_Moe, S_Moe, S_Spurs),
      Element(<<>>, <<>>, <<>>, S_Leeds),
      Element(S_Ben, S_Mee, S_Mee, <<>>) }

\* an item of the player catalog: its name, its ids, the team_name of its
\* first FBref block that has one, and its Understat team
Item(name, fb, us, fteam, uteam) ==
    [player_name |-> name, fbref_id |-> fb, understat_id |-> us,
     fbref_team |-> fteam, understat_team |-> uteam]

CatalogItems ==
    { Item(S_BenMee, "fb1", "us1", S_Everton, S_Everton),
      Item(S_BenMoe, "fb2", "", S_Leeds, <<>>),
      Item(S_BenMoeSlash, "", "us3", <<>>, S_Tottenham),
      Item(S_TimReid, "fb4", "us4", S_Leeds, S_Leeds) }

\* items of the player catalog with no team in any block, and with no
\* identifier of either provider
ExtraItems ==
    { Item(S_BenMoe, "fb5", "us5", <<>>, <<>>),
      Item(S_BenMee, "", "", S_Leeds, S_Leeds) }

\* the most elements of bootstrap-static and items of the player catalog
MaxElements == 2
MaxCat == 2

\* (team_threshold, global_threshold): the defaults 0.84 and 0.88, and a
\* pair with global_threshold < team_threshold
FplThresholdPairs == { <<8400000, 8800000>>, <<9500000, 6000000>> }

\* full_name of main: first and second name, web_name when both are empty
full_name(el) ==
    LET fn == Strip(el.first_name)
        sn == Strip(el.second_name)
    IN  IF fn # <<>> \/ sn # <<>> THEN PairStrip(fn, sn) ELSE el.web_name

----------------------------------------------------------------------------
(* match_player_row.                                                       *)

\* FlatRow for the items of the model, tabulated once: the key is
\* <<lib, item>>
FlatMemo ==
    [k \in {<<lib, it>> : lib \in Libs, it \in CatalogItems \cup ExtraItems} |->
        FlatRow(k[1], k[2])]

\* flatten_players
flatten_players(lib, items) ==
    DropDupPlayers([k \in DOMAIN items |-> FlatMemo[<<lib, items[k]>>]], {})

\* score_player for the names and catalog rows of the model, tabulated
\* once: the key is <<lib, pred_name, cand_row>>
ScoreMemo ==
    [k \in {<<lib, full_name(el), FlatRow(lib, it)>> :
                lib \in Libs, el \in ElementPool, it \in CatalogItems \cup ExtraItems} |->
        score_player(k[1], k[2], k[3])]

\* the loop of pick_best over the rows of df from position k on
\* lines 330-331: the strictly better of the best so far and row r
BetterRow(best, r, sc) ==
    IF sc.score > best.score
    THEN [found |-> TRUE, row |-> r, score |-> sc.score, best_var |-> sc.best_var]
    ELSE best

RECURSIVE PickBestFrom(_, _, _, _, _)
PickBestFrom(lib, pred_name, frame, k, best) ==
    IF k > Len(frame) THEN best
    ELSE PickBestFrom(lib, pred_name, frame, k + 1,
                      BetterRow(best, frame[k],
                                ScoreMemo[<<lib, pred_name, frame[k]>>]))

\* pick_best: found is FALSE when best_row is None
pick_best(lib, pred_name, frame) ==
    PickBestFrom(lib, pred_name, frame, 1,
                 [found |-> FALSE, row |-> <<>>, score |-> 0, best_var |-> <<>>])

\* the tuple match_player_row returns for row r found by pick_best; the
\* debug text carries the variant and the score to three decimals
Matched(b, method) ==
    [fbref_id |-> b.row.fbref_id,
     understat_id |-> b.row.understat_id,
     matched_player_name |-> b.row.player_name,
     matched_team |-> b.row.catalog_team_name,
     method |-> method,
     confidence |-> b.score,
     debug |-> [base_best_on |-> b.best_var, score |-> (b.score + 5000) \div 10000]]

\* a variant of TeamBlock that also blocks on an empty team name
TeamBlock_EmptyTeam(lib, team_name, cat) ==
    SelectSeq(cat, LAMBDA r : r.norm_team = norm(lib.ud, team_name))

\* line 334: the rows of the catalog of the team of the element
TeamBlock(lib, team_name, cat) ==
    LET tnorm == norm(lib.ud, team_name)
    IN  IF tnorm # <<>>
        THEN SelectSeq(cat, LAMBDA r : r.norm_team = tnorm)
        ELSE <<>>

\* what match_player_row returns when no stage accepts
NoMatch ==
    [fbref_id |-> "", understat_id |-> "", matched_player_name |-> <<>>,
     matched_team |-> <<>>, method |-> "none", confidence |-> 0,
     debug |-> "no match above thresholds"]

\* a policy without the team stage: the whole catalog is searched at once
MatchOutcome_GlobalOnly(sub, bs, bg, team_threshold_, global_threshold_) ==
    IF bg.found /\ bg.score >= global_threshold_
    THEN Matched(bg, "global")
    ELSE NoMatch

\* a policy that searches the whole catalog before the team block
MatchOutcome_GlobalFirst(sub, bs, bg, team_threshold_, global_threshold_) ==
    IF bg.found /\ bg.score >= global_threshold_
    THEN Matched(bg, "global")
    ELSE IF sub # <<>> /\ bs.found /\ bs.score >= team_threshold_
    THEN Matched(bs, "team_block")
    ELSE NoMatch

\* lines 335-346: the two stages, for the team block sub, its best row bs
\* and the best row bg of the whole catalog
MatchOutcome(sub, bs, bg, team_threshold_, global_threshold_) ==
    IF sub # <<>> /\ bs.found /\ bs.score >= team_threshold_
    THEN Matched(bs, "team_block")
    ELSE IF bg.found /\ bg.score >= global_threshold_
    THEN Matched(bg, "global")
    ELSE NoMatch

\* match_player_row
match_player_row(lib, pred_name, team_name, cat, team_threshold_, global_threshold_) ==
    MatchOutcome(TeamBlock(lib, team_name, cat),
                 pick_best(lib, pred_name, TeamBlock(lib, team_name, cat)),
                 pick_best(lib, pred_name, cat),
                 team_threshold_, global_threshold_)

\* what only build_xrefs reads or counts
xrefsVars == <<epl_teams, team_standard, runs>>

linkVars == <<HAVE_RF, strict, fuzzy, team_xref, players, fbref_players, up,
              fb_by_team, i, xrows, umiss, minted, player_xref,
              player_xref_unmatched, xrefsVars>>

fplVars == <<fuzz, jellyfish, unidecode, team_threshold, global_threshold, teams,
             fpl_elements, players_list, df, catalog, fi, results, unmatched,
             fpl_elements_enriched>>

\* what only the runs of the normalizers use
normVars == <<normalized>>

vars == <<pc, linkVars, fplVars, normVars>>

NormIdle == normalized = <<>>

\* the state of the program that does not run
LinkIdle ==
    /\ HAVE_RF = FALSE /\ strict = 0 /\ fuzzy = 0
    /\ team_xref = <<>> /\ players = <<>> /\ fbref_players = <<>>
    /\ up = <<>> /\ fb_by_team = <<>> /\ i = 0 /\ xrows = <<>> /\ umiss = <<>>
    /\ minted = 0 /\ player_xref = <<>> /\ player_xref_unmatched = <<>>
    /\ epl_teams = <<>> /\ team_standard = [exists |-> FALSE, rows |-> <<>>]
    /\ runs = 0

FplIdle ==
    /\ fuzz = FALSE /\ jellyfish = FALSE /\ unidecode = FALSE
    /\ team_threshold = 0 /\ global_threshold = 0
    /\ teams = <<>> /\ fpl_elements = <<>> /\ players_list = <<>>
    /\ df = <<>> /\ catalog = <<>> /\ fi = 0 /\ results = <<>>
    /\ unmatched = <<>> /\ fpl_elements_enriched = <<>>

Init ==
    /\ pc = "start"
    /\ HAVE_RF \in BOOLEAN
    /\ \E th \in ThresholdPairs : strict = th[1] /\ fuzzy = th[2]
    /\ team_xref \in TxTables
    /\ players \in SeqsNoRepeat(PlayerPool, 1, MaxPlayers)
    /\ fbref_players \in SeqsNoRepeat(FbrefPool, 1, MaxFb)
    /\ up = <<>>
    /\ fb_by_team = <<>>
    /\ i = 0
    /\ xrows = <<>>
    /\ umiss = <<>>
    /\ minted = 0
    /\ player_xref = <<>>
    /\ player_xref_unmatched = <<>>
    /\ epl_teams = <<>>
    /\ team_standard = [exists |-> FALSE, rows |-> <<>>]
    /\ runs = 0
    /\ FplIdle
    /\ NormIdle

\* lines 143-170: read the tables, build up, fp and the buckets, and start
\* with empty lists
LoadFrames ==
    /\ pc = "start"
    /\ LET tx == TxNorm(team_xref)
       IN  /\ up' = BuildUp(players, tx)
           /\ fb_by_team' = GroupByTeam(BuildFp(fbref_players, tx))
    /\ i' = 0
    /\ xrows' = <<>>
    /\ umiss' = <<>>
    /\ pc' = "loop"
    /\ UNCHANGED <<HAVE_RF, strict, fuzzy, team_xref, players, fbref_players,
                   minted, player_xref, player_xref_unmatched, xrefsVars, fplVars, normVars>>

\* a variant of LoopBody that records nothing for a low score
LoopBody_SkipsLowScore ==
    /\ pc = "loop"
    /\ i < Len(up)
    /\ \E o \in Decide(up[i + 1], fb_by_team, HAVE_RF, strict, fuzzy) :
        IF o.to = "xrows"
        THEN /\ xrows' = Append(xrows, [canonical_player_id |-> minted + 1] @@ o.rec)
             /\ minted' = minted + 1
             /\ umiss' = umiss
        ELSE /\ umiss' = IF o.branch = "low_score" THEN umiss ELSE Append(umiss, o.rec)
             /\ UNCHANGED <<xrows, minted>>
    /\ i' = i + 1
    /\ UNCHANGED <<pc, HAVE_RF, strict, fuzzy, team_xref, players, fbref_players,
                   up, fb_by_team, player_xref, player_xref_unmatched, xrefsVars,
                   fplVars, normVars>>

\* a variant of LoopBody that takes an accepted candidate out of its bucket,
\* so that no later row of up can be linked to it
LoopBody_Consumes ==
    /\ pc = "loop"
    /\ i < Len(up)
    /\ \E o \in Decide(up[i + 1], fb_by_team, HAVE_RF, strict, fuzzy) :
        IF o.to = "xrows"
        THEN /\ xrows' = Append(xrows, [canonical_player_id |-> minted + 1] @@ o.rec)
             /\ minted' = minted + 1
             /\ umiss' = umiss
             /\ fb_by_team' =
                  [t \in DOMAIN fb_by_team |->
                      SelectSeq(fb_by_team[t],
                                LAMBDA f : f.fbref_player_id # o.rec.fbref_player_id)]
        ELSE /\ umiss' = Append(umiss, o.rec)
             /\ UNCHANGED <<xrows, minted, fb_by_team>>
    /\ i' = i + 1
    /\ UNCHANGED <<pc, HAVE_RF, strict, fuzzy, team_xref, players, fbref_players,
                   up, player_xref, player_xref_unmatched, xrefsVars,
                   fplVars, normVars>>

\* lines 171-245: one pass of the loop body
LoopBody ==
    /\ pc = "loop"
    /\ i < Len(up)
    /\ \E o \in Decide(up[i + 1], fb_by_team, HAVE_RF, strict, fuzzy) :
        IF o.to = "xrows"
        THEN /\ xrows' = Append(xrows, [canonical_player_id |-> minted + 1] @@ o.rec)
             /\ minted' = minted + 1
             /\ umiss' = umiss
        ELSE /\ umiss' = Append(umiss, o.rec)
             /\ UNCHANGED <<xrows, minted>>
    /\ i' = i + 1
    /\ UNCHANGED <<pc, HAVE_RF, strict, fuzzy, team_xref, players, fbref_players,
                   up, fb_by_team, player_xref, player_xref_unmatched, xrefsVars,
                   fplVars, normVars>>

\* a variant of Publish that adds its rows to the tables (if_exists='append')
Publish_Appends ==
    /\ pc = "loop"
    /\ i = Len(up)
    /\ player_xref' = player_xref \o xrows
    /\ player_xref_unmatched' = player_xref_unmatched \o umiss
    /\ pc' = IF xrows = <<>> THEN "failed" ELSE "done"
    /\ UNCHANGED <<HAVE_RF, strict, fuzzy, team_xref, players, fbref_players, up,
                   fb_by_team, i, xrows, umiss, minted, xrefsVars, fplVars, normVars>>

\* lines 247-254: both tables are replaced, then the indexes on player_xref
\* are created; a frame built from no rows has no columns to index
Publish ==
    /\ pc = "loop"
    /\ i = Len(up)
    /\ player_xref' = xrows
    /\ player_xref_unmatched' = umiss
    /\ pc' = IF xrows = <<>> THEN "failed" ELSE "done"
    /\ UNCHANGED <<HAVE_RF, strict, fuzzy, team_xref, players, fbref_players, up,
                   fb_by_team, i, xrows, umiss, minted, xrefsVars, fplVars, normVars>>

Next ==
    \/ LoadFrames
    \/ LoopBody
    \/ Publish

Spec == Init /\ [][Next]_vars

----------------------------------------------------------------------------
(* The FPL enrichment run: main of init_fpl_elements.py.                   *)

\* lines 364-417: the teams, the elements with their canonical team, the
\* flattened catalog.  No team raises at line 366; a frame built from no
\* element has no column fpl_team_name_raw (line 411), a catalog built from
\* no item no column to de-duplicate on (line 260).
FplLoad ==
    /\ pc = "main"
    /\ IF teams = <<>> \/ fpl_elements = <<>> \/ players_list = <<>>
       THEN /\ pc' = "main_failed"
            /\ UNCHANGED <<df, catalog>>
       ELSE LET lib == [fz |-> fuzz, jf |-> jellyfish, ud |-> unidecode]
                team_normset == {norm(unidecode, teams[k].team_name) : k \in DOMAIN teams}
                tmap == [n \in team_normset |->
                            teams[CHOOSE k \in DOMAIN teams :
                                    /\ norm(unidecode, teams[k].team_name) = n
                                    /\ \A m \in DOMAIN teams :
                                          norm(unidecode, teams[m].team_name) = n => m <= k
                                 ].team_id]
                row(el) ==
                    LET canon == normalize_team(unidecode, el.team_name, team_normset)
                        tn == norm(unidecode, canon)
                    IN  [player_name_raw |-> full_name(el),
                         fpl_team_name_raw |-> el.team_name,
                         canonical_team_name |-> canon,
                         team_norm |-> tn,
                         team_id_internal |-> IF tn \in team_normset THEN tmap[tn] ELSE ""]
            IN  /\ df' = [k \in DOMAIN fpl_elements |-> row(fpl_elements[k])]
                /\ catalog' = flatten_players(lib, players_list)
                /\ pc' = "match"
    /\ UNCHANGED <<fuzz, jellyfish, unidecode, team_threshold, global_threshold,
                   teams, fpl_elements, players_list, fi, results, unmatched,
                   fpl_elements_enriched, linkVars, normVars>>

\* lines 440-447: the row of the unmatched list
UnmatchedRow(ud, r, pname, tname, res) ==
    [player_name_raw |-> pname,
     fpl_team_name_raw |-> r.fpl_team_name_raw,
     canonical_team_name |-> tname,
     norm_player |-> norm(ud, pname),
     norm_team |-> norm(ud, tname),
     debug |-> res.debug]

\* lines 431-447: the result is kept, and the row is listed as unmatched when
\* it has neither identifier
Record(r, pname, tname, res) ==
    /\ results' = Append(results, res)
    /\ unmatched' =
          IF res.fbref_id = "" /\ res.understat_id = ""
          THEN Append(unmatched, UnmatchedRow(unidecode, r, pname, tname, res))
          ELSE unmatched

\* lines 425-427: the name and the team of row r
TeamNameOf(r) ==
    IF r.canonical_team_name # <<>> THEN r.canonical_team_name
    ELSE r.fpl_team_name_raw

\* lines 423-447: one pass of the matching loop
FplMatchOne ==
    /\ pc = "match"
    /\ fi < Len(df)
    /\ Record(df[fi + 1], df[fi + 1].player_name_raw, TeamNameOf(df[fi + 1]),
              match_player_row([fz |-> fuzz, jf |-> jellyfish, ud |-> unidecode],
                               df[fi + 1].player_name_raw, TeamNameOf(df[fi + 1]),
                               catalog, team_threshold, global_threshold))
    /\ fi' = fi + 1
    /\ UNCHANGED <<pc, fuzz, jellyfish, unidecode, team_threshold, global_threshold,
                   teams, fpl_elements, players_list, df, catalog,
                   fpl_elements_enriched, linkVars, normVars>>

\* lines 449-486: the match columns and player_name_normalized are added and
\* the table is replaced
FplWrite ==
    /\ pc = "match"
    /\ fi = Len(df)
    /\ fpl_elements_enriched' =
          [k \in DOMAIN df |->
              df[k] @@ results[k] @@
              [player_name_normalized |->
                  IF results[k].matched_player_name # <<>>
                  THEN JoinSp(tokens(unidecode, results[k].matched_player_name))
                  ELSE JoinSp(tokens(unidecode, df[k].player_name_raw))]]
    /\ pc' = "written"
    /\ UNCHANGED <<fuzz, jellyfish, unidecode, team_threshold, global_threshold,
                   teams, fpl_elements, players_list, df, catalog, fi, results,
                   unmatched, linkVars, normVars>>

InitFpl ==
    /\ pc = "main"
    /\ fuzz \in BOOLEAN
    /\ jellyfish \in BOOLEAN
    /\ unidecode \in BOOLEAN
    /\ \E th \in FplThresholdPairs : team_threshold = th[1] /\ global_threshold = th[2]
    /\ teams \in TeamTables
    /\ fpl_elements \in SeqsNoRepeat(ElementPool, 0, MaxElements)
    /\ players_list \in SeqsNoRepeat(CatalogItems, 0, MaxCat)
    /\ df = <<>>
    /\ catalog = <<>>
    /\ fi = 0
    /\ results = <<>>
    /\ unmatched = <<>>
    /\ fpl_elements_enriched = <<>>
    /\ LinkIdle
    /\ NormIdle

NextFpl ==
    \/ FplLoad
    \/ FplMatchOne
    \/ FplWrite

SpecFpl == InitFpl /\ [][NextFpl]_vars

\* a run of either program
InitAll == Init \/ InitFpl

NextAll == Next \/ NextFpl

SpecAll == InitAll /\ [][NextAll]_vars

----------------------------------------------------------------------------
(* build_xrefs: build_team_xref, then build_player_xref, run after run.    *)

S_Spurss == <<"S","p","u","r","s","s">>
S_HullA == <<"H","u","l","l"," ","A">>
S_HullB == <<"H","u","l","l"," ","B">>
S_HullAB == <<"H","u","l","l"," ","A","B">>

\* rows of epl_teams
EplRow(tid, tname) == [team_id |-> tid, team_name |-> tname]

\* the canonical catalog: no team; two teams; two teams whose names
\* normalize alike
EplTables ==
    { <<>>,
      << EplRow("1", S_Hull), EplRow("2", S_Spurs) >>,
      << EplRow("1", S_Hull), EplRow("3", S_HULL) >> }

\* rows of the FBref team table (line 90)
LabelRow(fname, fid) == [fbref_name |-> fname, fbref_team_id |-> fid]

\* the FBref team table: none exists; no row; labels that match a canonical
\* name exactly, nearly, or not at all
TeamStandardTables ==
    { [exists |-> FALSE, rows |-> <<>>],
      [exists |-> TRUE, rows |-> <<>>],
      [exists |-> TRUE,
       rows |-> << LabelRow(S_Hull, "h1"), LabelRow(S_HullC, "h2"),
                   LabelRow(S_Leeds, "l1") >>],
      [exists |-> TRUE,
       rows |-> << LabelRow(S_Spurs, "s1"), LabelRow(S_Spurss, "s2"),
                   LabelRow(S_HULL, "h3") >>] }

\* the players table and the FBref player table of a run of build_xrefs
XrefPlayerTables ==
    { << URow("u1", S_MoSalah, S_Hull, S_FM), URow("u3", S_MoSala, S_HULL, S_GK) >>,
      << URow("u3", S_MoSala, S_HULL, S_GK) >> }

XrefFbrefTables ==
    { << FRow("f1", S_MoSalah, S_Hull, S_FW), FRow("f4", S_MoSalah, S_Spurs, S_GK) >>,
      << FRow("f2", S_MoSalahAcute, S_Hull, S_DF) >>,
      << FRow("f4", S_MoSalah, S_Spurs, S_GK) >> }

\* the runs of build_xrefs that follow the first
MaxRuns == 1

\* teams['norm_name'] = teams['team_name'].map(_norm_team)
TeamsNorm(tt) ==
    [k \in DOMAIN tt |-> tt[k] @@ [norm_name |-> _norm_team(tt[k].team_name)]]

\* one row of fb with a canonical team, and with none (team_id is NaN, and
\* so is team_name, written None here)
MergedRow(f, nn, tid, tname) ==
    [fbref_name |-> f.fbref_name, fbref_team_id |-> f.fbref_team_id,
     norm_name |-> nn, team_id |-> tid, team_name |-> tname]

\* fb.merge(teams, on='norm_name', how='left') for the label f whose
\* normalized name is nn, hits being the teams of that normalized name
MergedRowsOf(f, nn, hits) ==
    IF hits = <<>> THEN << MergedRow(f, nn, NaN, None) >>
    ELSE [k \in DOMAIN hits |-> MergedRow(f, nn, hits[k].team_id, hits[k].team_name)]

\* line 94: merged
Merged(fb, tt) ==
    Flatten([k \in DOMAIN fb |->
                MergedRowsOf(fb[k], _norm_team(fb[k].fbref_name),
                             SelectSeq(tt, LAMBDA t :
                                 t.norm_name = _norm_team(fb[k].fbref_name)))])

\* Series.unique(): the values in the order of their first appearance
RECURSIVE UniqueSeq(_, _)
UniqueSeq(s, seen) ==
    IF s = <<>> THEN <<>>
    ELSE IF Head(s) \in seen THEN UniqueSeq(Tail(s), seen)
    ELSE <<Head(s)>> \o UniqueSeq(Tail(s), seen \cup {Head(s)})

\* line 98: cand
CandNames(tt) == UniqueSeq([k \in DOMAIN tt |-> tt[k].norm_name], {})

\* _sim for the normalized names of the two team tables, tabulated once: the
\* key is <<rf, label, name>>
TeamSimMemo ==
    [k \in {<<rf, _norm_team(a), _norm_team(b)>> :
                rf \in BOOLEAN,
                a \in {S_Hull, S_HullC, S_Leeds, S_Spurs, S_Spurss, S_HULL, S_HullAB},
                b \in {S_Hull, S_Spurs, S_HULL, S_HullA, S_HullB}} |->
        _sim(k[1], k[2], k[3])]

\* the scores of the names of cand against the label nn
TeamScores(rf, nn, cand) == [k \in DOMAIN cand |-> TeamSimMemo[<<rf, nn, cand[k]>>]]

\* the first place of the value best in sc
FirstOf(sc, best) ==
    CHOOSE k \in DOMAIN sc : sc[k] = best /\ \A j \in 1..(k - 1) : sc[j] # best

\* lines 101-105: process.extractOne with the scorer token_set_ratio, or max
\* over _sim: the first name of the highest score; ("", 0.0) from extractOne
\* when cand is empty
BestName(cand, sc) ==
    IF cand = <<>> THEN [choice |-> <<>>, score |-> 0]
    ELSE [choice |-> cand[FirstOf(sc, MaxOfSeq(sc))], score |-> MaxOfSeq(sc)]

\* a variant of Fix that accepts no name but an equal one
Fix_ExactOnly(r, best, tt) ==
    IF best.score >= 100001
    THEN << MergedRow(r, r.norm_name,
                      SelectSeq(tt, LAMBDA t : t.norm_name = best.choice)[1].team_id,
                      SelectSeq(tt, LAMBDA t : t.norm_name = best.choice)[1].team_name) >>
    ELSE <<>>

\* lines 106-113: the row added to fixes for the missing row r, if any
Fix(r, best, tt) ==
    IF best.score >= 90000
    THEN << MergedRow(r, r.norm_name,
                      SelectSeq(tt, LAMBDA t : t.norm_name = best.choice)[1].team_id,
                      SelectSeq(tt, LAMBDA t : t.norm_name = best.choice)[1].team_name) >>
    ELSE <<>>

\* lines 99-113: fixes
Fixes(rf, missing, tt) ==
    Flatten([k \in DOMAIN missing |->
                Fix(missing[k],
                    BestName(CandNames(tt),
                             TeamScores(rf, missing[k].norm_name, CandNames(tt))),
                    tt)])

\* [['fbref_team_id','fbref_name','team_id','team_name']].drop_duplicates()
RECURSIVE OutRows(_, _)
OutRows(rows, seen) ==
    IF rows = <<>> THEN <<>>
    ELSE IF TxRow(Head(rows).team_id, Head(rows).team_name,
                  Head(rows).fbref_team_id, Head(rows).fbref_name) \in seen
    THEN OutRows(Tail(rows), seen)
    ELSE << TxRow(Head(rows).team_id, Head(rows).team_name,
                  Head(rows).fbref_team_id, Head(rows).fbref_name) >>
         \o OutRows(Tail(rows),
                    seen \cup {TxRow(Head(rows).team_id, Head(rows).team_name,
                                      Head(rows).fbref_team_id, Head(rows).fbref_name)})

\* lines 96-119: the rows with a team, followed by the fixes (with no fix
\* merged is left as it is and dropna removes the missing rows)
TeamXrefOut(rf, merged, tt) ==
    OutRows(SelectSeq(merged, LAMBDA r : r.team_id # NaN)
            \o Fixes(rf, SelectSeq(merged, LAMBDA r : r.team_id = NaN), tt), {})

\* the rows build_team_xref writes
TeamXrefRows(rf, teams_, fb) ==
    TeamXrefOut(rf, Merged(fb, TeamsNorm(teams_)), TeamsNorm(teams_))

\* build_team_xref raises: no FBref team table (line 88), or max() of an
\* empty sequence (line 105) when rapidfuzz is missing, a label has no team
\* and the catalog has no name
TeamXrefRaises(rf, teams_, ts) ==
    \/ ~ts.exists
    \/ /\ ~rf
       /\ teams_ = <<>>
       /\ ts.rows # <<>>

\* a variant of BuildTeamXref after which the run of build_xrefs goes on
\* when build_team_xref raised
BuildTeamXref_GoesOn ==
    /\ pc = "team"
    /\ IF TeamXrefRaises(HAVE_RF, epl_teams, team_standard)
       THEN /\ pc' = "start"
            /\ team_xref' = team_xref
       ELSE /\ team_xref' = TeamXrefRows(HAVE_RF, epl_teams, team_standard.rows)
            /\ pc' = "start"
    /\ UNCHANGED <<HAVE_RF, strict, fuzzy, players, fbref_players, up, fb_by_team,
                   i, xrows, umiss, minted, player_xref, player_xref_unmatched,
                   xrefsVars, fplVars, normVars>>

\* lines 76-124 and 259: build_team_xref replaces team_xref, or raises and
\* ends the run
BuildTeamXref ==
    /\ pc = "team"
    /\ IF TeamXrefRaises(HAVE_RF, epl_teams, team_standard)
       THEN /\ pc' = "team_failed"
            /\ team_xref' = team_xref
       ELSE /\ team_xref' = TeamXrefRows(HAVE_RF, epl_teams, team_standard.rows)
            /\ pc' = "start"
    /\ UNCHANGED <<HAVE_RF, strict, fuzzy, players, fbref_players, up, fb_by_team,
                   i, xrows, umiss, minted, player_xref, player_xref_unmatched,
                   xrefsVars, fplVars, normVars>>

\* build_xrefs is called again: the tables it reads may have been refreshed,
\* the tables it wrote are as the last run left them
Rerun ==
    /\ pc \in {"done", "failed", "team_failed"}
    /\ runs < MaxRuns
    /\ runs' = runs + 1
    /\ epl_teams' \in EplTables
    /\ team_standard' \in TeamStandardTables
    /\ players' \in XrefPlayerTables
    /\ fbref_players' \in XrefFbrefTables
    /\ up' = <<>>
    /\ fb_by_team' = <<>>
    /\ i' = 0
    /\ xrows' = <<>>
    /\ umiss' = <<>>
    /\ pc' = "team"
    /\ UNCHANGED <<HAVE_RF, strict, fuzzy, team_xref, minted, player_xref,
                   player_xref_unmatched, fplVars, normVars>>

\* the first run of build_xrefs (line 256): build_player_xref is called with
\* its defaults, strict=97 and fuzzy=90
InitXrefs ==
    /\ pc = "team"
    /\ HAVE_RF \in BOOLEAN
    /\ strict = 97000
    /\ fuzzy = 90000
    /\ epl_teams \in EplTables
    /\ team_standard \in TeamStandardTables
    /\ players \in XrefPlayerTables
    /\ fbref_players \in XrefFbrefTables
    /\ team_xref = <<>>
    /\ up = <<>>
    /\ fb_by_team = <<>>
    /\ i = 0
    /\ xrows = <<>>
    /\ umiss = <<>>
    /\ minted = 0
    /\ player_xref = <<>>
    /\ player_xref_unmatched = <<>>
    /\ runs = 0
    /\ FplIdle
    /\ NormIdle

NextXrefs ==
    \/ BuildTeamXref
    \/ LoadFrames
    \/ LoopBody
    \/ Publish
    \/ Rerun

SpecXrefs == InitXrefs /\ [][NextXrefs]_vars

----------------------------------------------------------------------------
(* Claims about build_player_xref.                                         *)

\* a pass of the loop body has just processed row up[i + 1]
LoopStep == pc = "loop" /\ i' = i + 1

\* the pass appended exactly one row to xrows and nothing to umiss
AppendedOneX ==
    /\ Len(xrows') = Len(xrows) + 1
    /\ SubSeq(xrows', 1, Len(xrows)) = xrows
    /\ umiss' = umiss

\* the pass appended exactly one row to umiss and nothing to xrows
AppendedOneU ==
    /\ Len(umiss') = Len(umiss) + 1
    /\ SubSeq(umiss', 1, Len(umiss)) = umiss
    /\ xrows' = xrows

C2_OneRowPerPlayer ==
    /\ \A a, b \in DOMAIN xrows :
          a # b => xrows[a].understat_player_id # xrows[b].understat_player_id
    /\ \A a, b \in DOMAIN player_xref :
          a # b => player_xref[a].understat_player_id # player_xref[b].understat_player_id

\* the bucket of the row being processed, and its rows of the same
\* normalized name
CurCands == Cands(fb_by_team, up[i + 1].understat_team_id)
CurExact == ExactRows(CurCands, up[i + 1].norm_name)
CurBest == MaxOfSeq(Scores(HAVE_RF, CurCands, up[i + 1].norm_name))

\* C3: when the bucket of the target's team holds exactly one FBref player
\* (one fbref_player_id) whose normalized name equals the target's, the
\* target is accepted with method exact_norm_same_team and confidence 100.0,
\* however many team_xref rows name that team.
C3_OneExactPlayerIsExact ==
    [][ (LoopStep /\ Cardinality({CurExact[k].fbref_player_id : k \in DOMAIN CurExact}) = 1)
        => /\ AppendedOneX
           /\ xrows'[Len(xrows')].method = "exact_norm_same_team"
           /\ xrows'[Len(xrows')].confidence = 100000 ]_vars

\* C5: when the bucket is not empty and has no exact match, the target is
\* accepted if and only if the best score of the bucket is >= fuzzy (the
\* team-block threshold); an accepted match is fuzzy_strict_same_team when
\* the score is >= strict and fuzzy_same_team otherwise; for every pair of
\* thresholds.
C5_AcceptIffAboveTeamBlock ==
    [][ (LoopStep /\ CurCands # <<>> /\ CurExact = <<>>)
        => IF CurBest >= fuzzy
           THEN /\ AppendedOneX
                /\ xrows'[Len(xrows')].confidence = CurBest
                /\ xrows'[Len(xrows')].method =
                     IF CurBest >= strict THEN "fuzzy_strict_same_team"
                     ELSE "fuzzy_same_team"
           ELSE AppendedOneU ]_vars

\* the first letter of a position, lower case; NULL and '' have none
FirstLetter(position) ==
    IF position = None \/ position = <<>> THEN <<>>
    ELSE _norm(<<position[1]>>)

\* the exact candidates whose position starts with the target's first letter
PosHits ==
    LET pos == FirstLetter(up[i + 1].position)
    IN  {k \in DOMAIN CurExact :
            pos # <<>> /\ FirstLetter(CurExact[k].fbref_pos) = pos}

\* the row appended to xrows names candidate f of the bucket
Names(x, f) ==
    /\ x.fbref_player_id = f.fbref_player_id
    /\ x.fbref_name = f.fbref_name
    /\ x.fbref_team_id = f.fbref_team_id_canon

\* C4: when two or more candidates of the bucket have the target's
\* normalized name, the accepted candidate is one whose position prefix
\* matches the target's when there is one, and otherwise (none matches, or the
\* target has no position) the first exact candidate in input order; the row
\* has method exact_norm_same_team_tiebreak and confidence 99.0.
C4_TiebreakByPosition ==
    [][ (LoopStep /\ Len(CurExact) >= 2)
        => /\ AppendedOneX
           /\ xrows'[Len(xrows')].method = "exact_norm_same_team_tiebreak"
           /\ xrows'[Len(xrows')].confidence = 99000
           /\ IF PosHits # {}
              THEN \E k \in PosHits : Names(xrows'[Len(xrows')], CurExact[k])
              ELSE Names(xrows'[Len(xrows')], CurExact[1]) ]_vars

\* a tie was broken by position in favour of a candidate that is not the
\* first of its bucket
C4_Witness ==
    \E k \in DOMAIN xrows :
        /\ xrows[k].method = "exact_norm_same_team_tiebreak"
        /\ xrows[k].understat_team_id \in DOMAIN fb_by_team
        /\ LET b == fb_by_team[xrows[k].understat_team_id]
               e == SelectSeq(b, LAMBDA f : f.norm_name = _norm(xrows[k].understat_name))
           IN  /\ Len(e) >= 2
               /\ e[1].fbref_player_id # xrows[k].fbref_player_id

\* the team of the row being processed has no bucket
NoBucket == up[i + 1].understat_team_id \notin DOMAIN fb_by_team

\* the best score of the target's name over the whole FBref player table
CurGlobalBest ==
    MaxOfSeq([k \in DOMAIN fbref_players |->
                 _sim(HAVE_RF, up[i + 1].norm_name, _norm(fbref_players[k].fbref_name))])

C8_UnmatchedReasons ==
    [][ (LoopStep /\ ~AppendedOneX)
        => /\ AppendedOneU
           /\ LET u == umiss'[Len(umiss')]
              IN  /\ u.understat_player_id = up[i + 1].understat_player_id
                  /\ u.reason \in {"no_team_candidates", "low_score"}
                  /\ u.reason = "no_team_candidates" <=> NoBucket
                  /\ u.reason = "low_score"
                       <=> (~NoBucket /\ CurBest < strict /\ CurBest < fuzzy)
                  /\ u.reason = "low_score"
                       => /\ u.best_score = CurBest
                          /\ \E k \in DOMAIN CurCands :
                                /\ CurCands[k].fbref_name = u.best_candidate
                                /\ _sim(HAVE_RF, up[i + 1].norm_name,
                                        CurCands[k].norm_name) = u.best_score ]_vars

\* a finished run wrote a low_score row whose best candidate is not the
\* first row of the bucket
C8_Witness ==
    /\ pc \in {"done", "failed"}
    /\ \E k \in DOMAIN player_xref_unmatched :
          LET u == player_xref_unmatched[k]
          IN  /\ u.reason = "low_score"
              /\ u.understat_team_id \in DOMAIN fb_by_team
              /\ fb_by_team[u.understat_team_id][1].fbref_name # u.best_candidate

----------------------------------------------------------------------------
(* Claims about match_player_row and about both matchers.                  *)

\* the libraries of the run
CurLib == [fz |-> fuzz, jf |-> jellyfish, ud |-> unidecode]

\* the score of the catalog row at position n for the element of row k of df
RowScore(k, n) == ScoreMemo[<<CurLib, df[k].player_name_raw, catalog[n]>>].score

\* the positions of the catalog rows of the team of row k of df
TeamPositions(k) ==
    {n \in DOMAIN catalog :
        /\ norm(unidecode, TeamNameOf(df[k])) # <<>>
        /\ catalog[n].norm_team = norm(unidecode, TeamNameOf(df[k]))}

\* the first of the positions ps whose row scores highest for row k
BestPosition(k, ps) ==
    CHOOSE n \in ps :
        \A m \in ps : \/ RowScore(k, n) > RowScore(k, m)
                      \/ RowScore(k, n) = RowScore(k, m) /\ n <= m

\* result res is the catalog row at position n, with method m and the
\* score of that row as confidence
Returns(k, res, n, m) ==
    /\ res.method = m
    /\ res.confidence = RowScore(k, n)
    /\ res.fbref_id = catalog[n].fbref_id
    /\ res.understat_id = catalog[n].understat_id
    /\ res.matched_player_name = catalog[n].player_name
    /\ res.matched_team = catalog[n].catalog_team_name

\* result res is the empty match
ReturnsNone(res) ==
    /\ res.method = "none"
    /\ res.confidence = 0
    /\ res.fbref_id = ""
    /\ res.understat_id = ""
    /\ res.matched_player_name = <<>>
    /\ res.matched_team = <<>>

\* C7: match_player_row decides in two stages in a fixed order.  When the
\* team block of the element is not empty and its best row scores at least
\* team_threshold, that row is returned with method team_block, whatever the
\* rows of other teams score; otherwise the best row of the whole catalog is
\* returned with method global when it scores at least global_threshold;
\* otherwise the result is the empty match with method none and confidence
\* 0.  Every pass of the loop returns a result, so a run that wrote the
\* table has one result for every element.
C7_TwoStagePolicy ==
    /\ (pc \in {"match", "written"} => Len(results) = fi)
    /\ (pc = "written" => Len(results) = Len(df))
    /\ \A k \in DOMAIN results :
          IF /\ TeamPositions(k) # {}
             /\ RowScore(k, BestPosition(k, TeamPositions(k))) >= team_threshold
          THEN Returns(k, results[k], BestPosition(k, TeamPositions(k)), "team_block")
          ELSE IF RowScore(k, BestPosition(k, DOMAIN catalog)) >= global_threshold
          THEN Returns(k, results[k], BestPosition(k, DOMAIN catalog), "global")
          ELSE ReturnsNone(results[k])

\* an element was matched inside its team block although a row of another
\* team scores strictly higher
C7_Witness ==
    \E k \in DOMAIN results :
        /\ results[k].method = "team_block"
        /\ \E n \in DOMAIN catalog :
              /\ n \notin TeamPositions(k)
              /\ RowScore(k, n) > results[k].confidence
              /\ RowScore(k, n) >= global_threshold

\* the methods of build_player_xref that accept a row from the bucket of
\* the target's team
SameTeamMethods ==
    {"exact_norm_same_team", "exact_norm_same_team_tiebreak",
     "fuzzy_strict_same_team", "fuzzy_same_team"}

\* the FBref player of id fid plays for a team whose normalized name is
\* that of a team_xref row of team tid
PlaysFor(fid, tid) ==
    \E a \in DOMAIN fbref_players, b \in DOMAIN team_xref :
        /\ fbref_players[a].fbref_player_id = fid
        /\ team_xref[b].team_id = tid
        /\ _norm_team(fbref_players[a].fbref_team) = _norm_team(team_xref[b].team_name)

\* row x of xrows or of player_xref names one resolved team on both sides
SameTeamRow(x) ==
    x.method \in SameTeamMethods
        => /\ x.understat_team_id # NaN
           /\ x.fbref_team_id = x.understat_team_id

\* C9: blocking is sound in both matchers.  A row build_player_xref accepts
\* with a same-team method carries the same team on both sides
\* (fbref_team_id = understat_team_id, a resolved team), and in the table
\* written the FBref player's team normalizes to a name of that team; a
\* result of match_player_row with method team_block names a catalog row
\* whose normalized team is the normalized team of the element.
C9_BlockingSoundness ==
    /\ \A k \in DOMAIN xrows : SameTeamRow(xrows[k])
    /\ \A k \in DOMAIN player_xref :
          /\ SameTeamRow(player_xref[k])
          /\ player_xref[k].method \in SameTeamMethods
                => PlaysFor(player_xref[k].fbref_player_id,
                            player_xref[k].understat_team_id)
    /\ \A k \in DOMAIN results :
          results[k].method = "team_block"
              => /\ norm(unidecode, TeamNameOf(df[k])) # <<>>
                 /\ norm(unidecode, results[k].matched_team)
                       = norm(unidecode, TeamNameOf(df[k]))
                 /\ \E n \in DOMAIN catalog :
                       /\ catalog[n].norm_team = norm(unidecode, TeamNameOf(df[k]))
                       /\ catalog[n].player_name = results[k].matched_player_name
                       /\ catalog[n].fbref_id = results[k].fbref_id
                       /\ catalog[n].understat_id = results[k].understat_id

\* a finished run of build_player_xref accepted a player of the target's
\* team while the bucket of another team held a player of the same
\* normalized name
C9_Witness ==
    /\ pc = "done"
    /\ \E k \in DOMAIN player_xref :
          \E t \in DOMAIN fb_by_team :
              /\ t # player_xref[k].understat_team_id
              /\ \E n \in DOMAIN fb_by_team[t] :
                    fb_by_team[t][n].norm_name = _norm(player_xref[k].understat_name)

\* the amounts by which a threshold is raised: of build_player_xref in
\* thousandths of a point, of match_player_row in 1/10000000
Raises == {4000, 10000}
FplRaises == {1000000, 3000000}

\* the rows of up that build_player_xref accepts under thresholds s and f
Accepted(s, f) ==
    {k \in DOMAIN up :
        \E o \in Decide(up[k], fb_by_team, HAVE_RF, s, f) : o.to = "xrows"}

\* the rows of df that match_player_row matches under thresholds t and g
FplAccepted(t, g) ==
    {k \in DOMAIN df :
        match_player_row(CurLib, df[k].player_name_raw, TeamNameOf(df[k]),
                         catalog, t, g).method # "none"}

\* C10: raising one threshold and keeping the other never adds an accepted
\* match.  For a finished run of build_player_xref the rows accepted under
\* a higher strict, or under a higher fuzzy, number at most the rows it
\* accepted; for a finished run of main the elements matched under a higher
\* team_threshold, or under a higher global_threshold, number at most the
\* elements it matched.  The starting thresholds include strict < fuzzy and
\* global_threshold < team_threshold.
C10_ThresholdMonotone ==
    /\ pc \in {"done", "failed"}
          => \A d \in Raises :
                /\ Cardinality(Accepted(strict + d, fuzzy)) <= Len(xrows)
                /\ Cardinality(Accepted(strict, fuzzy + d)) <= Len(xrows)
    /\ pc = "written"
          => \A d \in FplRaises :
                /\ Cardinality(FplAccepted(team_threshold + d, global_threshold))
                      <= Cardinality({k \in DOMAIN results : results[k].method # "none"})
                /\ Cardinality(FplAccepted(team_threshold, global_threshold + d))
                      <= Cardinality({k \in DOMAIN results : results[k].method # "none"})

\* a finished loop of main with global_threshold < team_threshold matched an
\* element that a higher global_threshold leaves unmatched
C10_Witness ==
    /\ pc = "written"
    /\ global_threshold < team_threshold
    /\ \E d \in FplRaises :
          Cardinality(FplAccepted(team_threshold, global_threshold + d))
              < Cardinality({k \in DOMAIN results : results[k].method # "none"})

----------------------------------------------------------------------------
(* Claims about both matchers, continued.                                  *)

\* (method, confidence, matched team, matched candidate) of a record of
\* xrows, and the reason and the best candidate of a record of umiss
LinkVerdict(rec) ==
    IF "method" \in DOMAIN rec
    THEN <<rec.method, rec.confidence, rec.fbref_team_id, rec.fbref_player_id,
           rec.fbref_name>>
    ELSE IF "best_candidate" \in DOMAIN rec
    THEN <<rec.reason, rec.best_score, rec.best_candidate>>
    ELSE <<rec.reason>>

\* (method, confidence, matched team, matched candidate) of a tuple
\* match_player_row returned
FplVerdict(res) ==
    <<res.method, res.confidence, res.matched_team, res.fbref_id,
      res.understat_id, res.matched_player_name>>

\* what a build of tie order ties can record for the row of up the loop is
\* at
CurVerdicts(ties) ==
    {LinkVerdict(o.rec) :
        o \in DecideFor(ties, up[i + 1], fb_by_team, HAVE_RF, strict, fuzzy)}

\* the record the loop body appended
Appended == IF xrows' # xrows THEN xrows'[Len(xrows')] ELSE umiss'[Len(umiss')]

\* what match_player_row yields for the row of df the loop is at
CurFplVerdict ==
    FplVerdict(match_player_row(CurLib, df[fi + 1].player_name_raw,
                                TeamNameOf(df[fi + 1]), catalog,
                                team_threshold, global_threshold))

MethodEnumeration ==
    {"exact_norm_same_team", "exact_norm_same_team_tiebreak",
     "fuzzy_strict_same_team", "fuzzy_same_team", "global"}

\* C12: every record of xrows and of player_xref, and every tuple
\* match_player_row returned for an accepted match, has a method of the
\* enumeration of section 4.5 and a confidence between 0 and 100 (0 and
\* 100000 thousandths for build_player_xref; match_player_row returns the
\* score itself, between 0 and 1, kept in units of 1e-7).
C12_MethodEnumeration ==
    /\ \A x \in Range(xrows) \cup Range(player_xref) :
         /\ x.method \in MethodEnumeration
         /\ x.confidence \in 0..100000
    /\ \A k \in DOMAIN results :
         results[k].method # "none" =>
            /\ results[k].method \in MethodEnumeration
            /\ results[k].confidence \in 0..(100 * 10000000)

\* the rows of the bucket of the row the loop is at that are written
\* differently and normalize to the name of that row
DiacriticTwins ==
    SelectSeq(CurCands, LAMBDA f : /\ f.norm_name = up[i + 1].norm_name
                                   /\ f.fbref_name # up[i + 1].player_name)

\* the rows of the team block of row k of df that are written differently
\* and normalize to the name of that row
FplTwins(k) ==
    {n \in DOMAIN catalog :
        /\ norm(unidecode, TeamNameOf(df[k])) # <<>>
        /\ catalog[n].norm_team = norm(unidecode, TeamNameOf(df[k]))
        /\ norm(unidecode, df[k].player_name_raw) # <<>>
        /\ catalog[n].norm_player = norm(unidecode, df[k].player_name_raw)
        /\ catalog[n].player_name # df[k].player_name_raw}

----------------------------------------------------------------------------
(* Claims about build_xrefs.                                               *)

\* build_team_xref has run to its end on the tables of this run, and
\* team_xref holds what it wrote
TeamStageDone ==
    /\ ~TeamXrefRaises(HAVE_RF, epl_teams, team_standard)
    /\ team_xref = TeamXrefRows(HAVE_RF, epl_teams, team_standard.rows)

\* C14: every step of build_player_xref (reading team_xref and building the
\* buckets, deciding a target, publishing) is taken after build_team_xref
\* has written the whole team_xref of this run, and after a build_team_xref
\* that raised nothing of build_player_xref happens: the next step is the
\* next run of build_xrefs.
C14_TeamXrefFirst ==
    [][ /\ (LoadFrames \/ LoopBody \/ Publish) => TeamStageDone
        /\ pc = "team_failed" =>
              /\ pc' = "team"
              /\ UNCHANGED <<team_xref, player_xref, player_xref_unmatched, minted>> ]_vars

\* a second run of build_xrefs has decided all its targets on a team_xref
\* that is not empty
C14_Witness ==
    /\ pc = "loop"
    /\ runs = 1
    /\ team_xref # <<>>
    /\ i = Len(up)
    /\ i > 0

\* the record of player_xref or player_xref_unmatched x is about a row of the
\* players table of this run
OfThisRun(x) ==
    \E p \in Range(players) :
        /\ p.id = x.understat_player_id
        /\ IF "method" \in DOMAIN x
           THEN /\ p.player_name = x.understat_name
                /\ \E f \in Range(fbref_players) :
                      /\ f.fbref_player_id = x.fbref_player_id
                      /\ f.fbref_name = x.fbref_name
                /\ x.canonical_player_id > minted - Len(xrows)
           ELSE p.player_name = x.player_name

\* C15: when a run of build_xrefs has completed, team_xref holds the rows
\* build_team_xref computed from the tables of this run, player_xref the
\* rows this run accepted and player_xref_unmatched the rows it rejected,
\* one row for every row of up and no other: nothing of an earlier run is
\* left, whatever the earlier runs wrote.
C15_FullReplace ==
    pc = "done" =>
        /\ team_xref = TeamXrefRows(HAVE_RF, epl_teams, team_standard.rows)
        /\ player_xref = xrows
        /\ player_xref_unmatched = umiss
        /\ Len(player_xref) + Len(player_xref_unmatched) = Len(up)
        /\ \A x \in Range(player_xref) \cup Range(player_xref_unmatched) : OfThisRun(x)

\* a second run has completed after a first one that had written rows of
\* player_xref
C15_Witness ==
    /\ pc = "done"
    /\ runs = 1
    /\ player_xref # <<>>
    /\ minted > Len(player_xref)

\* C16: with an empty canonical team catalog a run stops with an error
\* before a player is matched and before a table is written: build_xrefs
\* does not get past build_team_xref and leaves the three tables as they
\* were, and the FPL enrichment does not get past its first step.
C16_EmptyCatalogFatal ==
    /\ (pc \in {"team", "team_failed", "start", "loop", "done", "failed"}
            /\ epl_teams = <<>>) =>
          /\ pc \in {"team", "team_failed"}
          /\ runs = 0 =>
                team_xref = <<>> /\ player_xref = <<>> /\ player_xref_unmatched = <<>>
    /\ (pc \in {"main", "main_failed", "match", "written"} /\ teams = <<>>) =>
          /\ pc \in {"main", "main_failed"}
          /\ results = <<>>
          /\ fpl_elements_enriched = <<>>

\* C17: with a canonical team catalog that is not empty build_player_xref
\* never raises: whatever the tables hold it reaches its end, with
\* player_xref and player_xref_unmatched published as the lists of the run,
\* also when no target was accepted and when every target was.
C17_RecordsNeverFatal ==
    (pc \in {"start", "loop", "done", "failed"} /\ epl_teams # <<>>) =>
        /\ pc # "failed"
        /\ pc = "done" =>
              player_xref = xrows /\ player_xref_unmatched = umiss


----------------------------------------------------------------------------
(* The normalizers applied to a text, and again to what they returned.     *)

\* the longest text normalized
MaxText == 3

\* the characters of the texts: a letter in both cases, a letter with an
\* accent, a letter that str.lower leaves alone and NFKD turns into a
\* capital, a hyphen, an apostrophe and a space
TextChars == {"H", "h", "H_script", "o_acute", "-", "'", " "}

RECURSIVE TextsOfLen(_)
TextsOfLen(n) ==
    IF n = 0 THEN {<<>>}
    ELSE {Append(t, c) : t \in TextsOfLen(n - 1), c \in TextChars}

\* the values passed to the normalizers: every text, and None
Texts == UNION {TextsOfLen(n) : n \in 0..MaxText} \cup {None}

\* _norm of one value and norm of the other
NormPair(ud, link, fpl) == [link |-> _norm(link), fpl |-> norm(ud, fpl)]

InitNorm ==
    /\ pc = "norm"
    /\ \E x \in Texts : normalized = << [link |-> x, fpl |-> x] >>
    /\ unidecode \in BOOLEAN
    /\ fuzz = FALSE /\ jellyfish = FALSE
    /\ team_threshold = 0 /\ global_threshold = 0
    /\ teams = <<>> /\ fpl_elements = <<>> /\ players_list = <<>>
    /\ df = <<>> /\ catalog = <<>> /\ fi = 0 /\ results = <<>>
    /\ unmatched = <<>> /\ fpl_elements_enriched = <<>>
    /\ LinkIdle

\* _norm(x) and norm(x)
Normalize ==
    /\ pc = "norm"
    /\ normalized' = Append(normalized,
           NormPair(unidecode, normalized[1].link, normalized[1].fpl))
    /\ pc' = "normalized"
    /\ UNCHANGED <<linkVars, fplVars>>

\* _norm(_norm(x)) and norm(norm(x))
NormalizeAgain ==
    /\ pc = "normalized"
    /\ normalized' = Append(normalized,
           NormPair(unidecode, normalized[2].link, normalized[2].fpl))
    /\ pc' = "renormalized"
    /\ UNCHANGED <<linkVars, fplVars>>

NextNorm ==
    \/ Normalize
    \/ NormalizeAgain

SpecNorm == InitNorm /\ [][NextNorm]_vars

----------------------------------------------------------------------------
(* Claims about the normalizers.                                           *)

\* norm(norm(x)) = norm(x), with unidecode and without
NormFplIdempotent ==
    pc = "renormalized" => normalized[3].fpl = normalized[2].fpl

\* C18: normalizing a normalized text changes nothing, for every text and
\* for None: _norm(_norm(x)) = _norm(x) and norm(norm(x)) = norm(x)
C18_IdempotentNormalization ==
    pc = "renormalized" =>
        /\ normalized[3].link = normalized[2].link
        /\ normalized[3].fpl = normalized[2].fpl


----------------------------------------------------------------------------
(* main of init_fpl_elements.py on elements whose team is written as a     *)
(* short code.                                                             *)

S_LeedsUnited == <<"L","e","e","d","s"," ","U","n","i","t","e","d">>

\* a short code in every letter case
CaseVariants(code) ==
    { [k \in DOMAIN code |-> IF k \in low THEN LowerCh(code[k])[1] ELSE code[k]] :
        low \in SUBSET DOMAIN code }

\* a text as it is, and with whitespace before it, after it and around it
Padded(s) == {s, <<" ">> \o s, s \o <<" ">>, <<"TAB">> \o s \o <<" ", " ">>}

\* the team labels of the elements: every key of SHORT_TO_NAME, in every
\* letter case, with and without whitespace around it
CodeLabels ==
    UNION {Padded(v) : v \in UNION {CaseVariants(c) : c \in DOMAIN SHORT_TO_NAME}}

\* the answers of the teams endpoint: those of TeamTables, and a catalog
\* that holds Manchester United under the name of SHORT_TO_NAME and Leeds
\* under another name
CodeTeamTables ==
    TeamTables \cup
        { << TeamRow("4", S_ManchesterUnited), TeamRow("5", S_LeedsUnited) >> }

InitCodes ==
    /\ pc = "main"
    /\ fuzz \in BOOLEAN
    /\ jellyfish \in BOOLEAN
    /\ unidecode \in BOOLEAN
    /\ team_threshold = 8400000
    /\ global_threshold = 8800000
    /\ teams \in CodeTeamTables
    /\ \E label \in CodeLabels :
          fpl_elements = << Element(S_Ben, S_Mee, S_Mee, label) >>
    /\ players_list = << Item(S_BenMee, "fb1", "us1", S_Everton, S_Everton) >>
    /\ df = <<>>
    /\ catalog = <<>>
    /\ fi = 0
    /\ results = <<>>
    /\ unmatched = <<>>
    /\ fpl_elements_enriched = <<>>
    /\ LinkIdle
    /\ NormIdle

SpecCodes == InitCodes /\ [][NextFpl]_vars

----------------------------------------------------------------------------
(* Claims about normalize_team.                                            *)

\* the short code a label stands for, or <<>>
CodeOf(raw) ==
    LET code == UpperStr(Strip(raw))
    IN  IF code \in DOMAIN SHORT_TO_NAME THEN code ELSE <<>>

\* the rows of the catalog that hold the team of row r under the name
\* SHORT_TO_NAME gives it
HeldAs(r, tt) ==
    {k \in DOMAIN tt : tt[k].team_name = SHORT_TO_NAME[CodeOf(r.fpl_team_name_raw)]}

\* row r of the frame has the name SHORT_TO_NAME gives its code, and the
\* key and an identifier of that name when the catalog tt holds the name
CodeResolved(r, tt, ud) ==
    CodeOf(r.fpl_team_name_raw) # <<>> =>
        /\ r.canonical_team_name = SHORT_TO_NAME[CodeOf(r.fpl_team_name_raw)]
        /\ HeldAs(r, tt) # {} =>
              /\ r.team_norm \in {norm(ud, tt[k].team_name) : k \in DOMAIN tt}
              /\ r.team_id_internal \in {tt[k].team_id : k \in HeldAs(r, tt)}

\* C19: a short code, in any letter case and with whitespace around it, is
\* given the name of SHORT_TO_NAME when the frame is built, before the first
\* call of match_player_row and whatever libraries and thresholds the
\* matching uses; the name normalizes to a key of the team id map when the
\* catalog holds it; and the matching leaves the frame as it is
C19_TeamCodeResolution ==
    [][ /\ (pc = "main" /\ pc' = "match") =>
              /\ results' = <<>>
              /\ Len(df') = Len(fpl_elements)
              /\ \A k \in DOMAIN df' : CodeResolved(df'[k], teams, unidecode)
        /\ pc = "match" => df' = df ]_vars

\* the label TAB mUn, followed by two spaces, has become Manchester United
\* with the identifier the catalog gives that name
C19_Witness ==
    /\ pc = "match"
    /\ Len(df) = 1
    /\ df[1].fpl_team_name_raw = <<"TAB", "m", "U", "n", " ", " ">>
    /\ df[1].canonical_team_name = S_ManchesterUnited
    /\ df[1].team_norm = norm(unidecode, S_ManchesterUnited)
    /\ df[1].team_id_internal = "4"


----------------------------------------------------------------------------
(* Claims about build_team_xref.                                           *)

\* the normalized names of the canonical catalog tt
CanonNorms(tt) == {_norm_team(tt[k].team_name) : k \in DOMAIN tt}

\* the label f equals a canonical name once both are normalized
ExactLabel(f, tt) == _norm_team(f.fbref_name) \in CanonNorms(tt)

\* the best similarity of the label f against the canonical names is 90 or
\* more
NearLabel(rf, f, tt) ==
    \E c \in CanonNorms(tt) : TeamSimMemo[<<rf, _norm_team(f.fbref_name), c>>] >= 90000

\* the rows of team_xref written for the label f
RowsOfLabel(f) ==
    {x \in Range(team_xref) :
        x.fbref_name = f.fbref_name /\ x.fbref_team_id = f.fbref_team_id}

\* C20: once build_team_xref has returned, a label of the FBref team table
\* has a row in team_xref exactly when its normalized form is a normalized
\* canonical name or, failing that, its best similarity against the
\* canonical names is at least 90; a label that matches exactly is given the
\* teams of that normalized name; and every row is about a label of the
\* table and a team of the catalog
C20_TeamResolver ==
    pc \in {"start", "loop", "done", "failed"} =>
        /\ \A f \in Range(team_standard.rows) :
              /\ RowsOfLabel(f) # {} <=>
                    (ExactLabel(f, epl_teams) \/ NearLabel(HAVE_RF, f, epl_teams))
              /\ ExactLabel(f, epl_teams) =>
                    \A x \in RowsOfLabel(f) :
                        _norm_team(x.team_name) = _norm_team(f.fbref_name)
        /\ \A x \in Range(team_xref) :
              /\ \E t \in Range(epl_teams) :
                    t.team_id = x.team_id /\ t.team_name = x.team_name
              /\ \E f \in Range(team_standard.rows) : x \in RowsOfLabel(f)

\* with rapidfuzz, of the labels Hull, Hull C and Leeds against the catalog
\* Hull and Spurs: Hull C, which equals no canonical name, has the row of
\* Hull, and Leeds has no row
C20_Witness ==
    /\ pc = "start"
    /\ HAVE_RF
    /\ epl_teams = << EplRow("1", S_Hull), EplRow("2", S_Spurs) >>
    /\ ~ExactLabel(LabelRow(S_HullC, "h2"), epl_teams)
    /\ TxRow("1", S_Hull, "h2", S_HullC) \in Range(team_xref)
    /\ LabelRow(S_Leeds, "l1") \in Range(team_standard.rows)
    /\ RowsOfLabel(LabelRow(S_Leeds, "l1")) = {}


----------------------------------------------------------------------------
(* Claims about the buckets of build_player_xref.                          *)

\* the canonical teams team_xref assigns to the team label of the FBref
\* player f
TeamsOfLabel(f) ==
    {team_xref[k].team_id : k \in {j \in DOMAIN team_xref :
                                      team_xref[j].fbref_name = f.fbref_team}}

\* the bucket of team t holds the FBref player of id fid
InBucket(t, fid) ==
    /\ t \in DOMAIN fb_by_team
    /\ \E k \in DOMAIN fb_by_team[t] : fb_by_team[t][k].fbref_player_id = fid

\* C21: once the buckets are built, every FBref player whose team label has
\* a row in team_xref is in the bucket of the canonical team of that row,
\* labels resolved by the fuzzy step included, and every row of a bucket is
\* a player whose label team_xref assigns to the team of the bucket
C21_CandidateIndex ==
    pc \in {"loop", "done", "failed"} =>
        /\ \A f \in Range(fbref_players) :
              \A t \in TeamsOfLabel(f) : InBucket(t, f.fbref_player_id)
        /\ \A t \in DOMAIN fb_by_team :
              \A k \in DOMAIN fb_by_team[t] :
                  \E f \in Range(fbref_players) :
                      /\ f.fbref_player_id = fb_by_team[t][k].fbref_player_id
                      /\ t \in TeamsOfLabel(f)


----------------------------------------------------------------------------
(* The team normalizers applied to the keys of their alias tables.         *)

\* the labels normalized: every key of the table, as it is written and
\* with whitespace around it
AliasLabels(table) == UNION {Padded(a) : a \in DOMAIN table}

InitAliases ==
    /\ pc = "alias"
    /\ \/ \E a \in AliasLabels(ALIASES) :
             normalized = << [table |-> "ALIASES", label |-> a] >>
       \/ \E a \in AliasLabels(TEAM_ALIASES) :
             normalized = << [table |-> "TEAM_ALIASES", label |-> a] >>
    /\ unidecode \in BOOLEAN
    /\ teams \in CodeTeamTables \ {<<>>}
    /\ fuzz = FALSE /\ jellyfish = FALSE
    /\ team_threshold = 0 /\ global_threshold = 0
    /\ fpl_elements = <<>> /\ players_list = <<>>
    /\ df = <<>> /\ catalog = <<>> /\ fi = 0 /\ results = <<>>
    /\ unmatched = <<>> /\ fpl_elements_enriched = <<>>
    /\ LinkIdle

\* _norm_team(label), or normalize_team(label, team_normset) with the
\* team_normset of main (line 367)
NormalizeTeamLabel ==
    /\ pc = "alias"
    /\ normalized' =
          Append(normalized,
                 IF normalized[1].table = "ALIASES"
                 THEN _norm_team(normalized[1].label)
                 ELSE normalize_team(unidecode, normalized[1].label,
                          {norm(unidecode, teams[k].team_name) : k \in DOMAIN teams}))
    /\ pc' = "aliased"
    /\ UNCHANGED <<linkVars, fplVars>>

SpecAliases == InitAliases /\ [][NormalizeTeamLabel]_vars

----------------------------------------------------------------------------
(* Claims about the alias tables.                                          *)

\* the alias of TEAM_ALIASES that normalize_team does not resolve
S_BrightonAndHoveAlbion ==
    <<"b","r","i","g","h","t","o","n"," ","&"," ","h","o","v","e"," ",
      "a","l","b","i","o","n">>

\* normalize_team returns the canonical label of every key of TEAM_ALIASES
\* but one
TeamAliasesButOne ==
    (pc = "aliased" /\ normalized[1].table = "TEAM_ALIASES"
        /\ normalized[1].label \in DOMAIN TEAM_ALIASES \ {S_BrightonAndHoveAlbion})
    => normalized[2] = TEAM_ALIASES[normalized[1].label]

\* C22: the team normalizer of a module, applied to a key of the alias
\* table of that module, returns the canonical label of the entry
C22_AliasTablesResolve ==
    /\ (pc = "aliased" /\ normalized[1].table = "ALIASES"
           /\ normalized[1].label \in DOMAIN ALIASES)
          => normalized[2] = ALIASES[normalized[1].label]
    /\ (pc = "aliased" /\ normalized[1].table = "TEAM_ALIASES"
           /\ normalized[1].label \in DOMAIN TEAM_ALIASES)
          => normalized[2] = TEAM_ALIASES[normalized[1].label]


----------------------------------------------------------------------------
(* build_xrefs on a label that is equally near to two canonical names.     *)

\* the catalog holds Hull A and Hull B, in either order; the FBref team
\* table holds the label Hull AB, which is 92.3 away from both with either
\* backend, and a label that matches exactly
InitTies ==
    /\ pc = "team"
    /\ HAVE_RF \in BOOLEAN
    /\ strict = 97000
    /\ fuzzy = 90000
    /\ epl_teams \in { << EplRow("4", S_HullA), EplRow("5", S_HullB) >>,
                       << EplRow("5", S_HullB), EplRow("4", S_HullA) >> }
    /\ team_standard \in
          { [exists |-> TRUE, rows |-> << LabelRow(S_HullAB, "h4") >>],
            [exists |-> TRUE,
             rows |-> << LabelRow(S_HullB, "h5"), LabelRow(S_HullAB, "h4") >>] }
    /\ players \in XrefPlayerTables
    /\ fbref_players \in XrefFbrefTables
    /\ team_xref = <<>>
    /\ up = <<>>
    /\ fb_by_team = <<>>
    /\ i = 0
    /\ xrows = <<>>
    /\ umiss = <<>>
    /\ minted = 0
    /\ player_xref = <<>>
    /\ player_xref_unmatched = <<>>
    /\ runs = 0
    /\ FplIdle
    /\ NormIdle

SpecTies == InitTies /\ [][NextXrefs]_vars

----------------------------------------------------------------------------
(* Claims about ties in build_team_xref.                                   *)

\* the score of the label f against the normalized canonical name c
LabelScore(rf, f, c) == TeamSimMemo[<<rf, _norm_team(f.fbref_name), c>>]

\* the normalized canonical names of the best score for the label f
BestNames(rf, f, tt) ==
    {c \in CanonNorms(tt) :
        \A d \in CanonNorms(tt) : LabelScore(rf, f, c) >= LabelScore(rf, f, d)}

\* the first of a set of names in lexicographic order
LexFirst(S) == CHOOSE c \in S : \A d \in S \ {c} : StrLess(c, d)

\* the label f matches no canonical name exactly and two or more canonical
\* names share its best score, which is 90 or more
TiedLabel(rf, f, tt) ==
    /\ ~ExactLabel(f, tt)
    /\ NearLabel(rf, f, tt)
    /\ Cardinality(BestNames(rf, f, tt)) >= 2

\* C23: once build_team_xref has returned, a label whose best score is tied
\* between canonical names has the row of the one that comes first in
\* lexicographic order, whatever the order of the catalog and the backend
C23_LexicographicTieBreak ==
    pc \in {"start", "loop", "done", "failed"} =>
        \A f \in Range(team_standard.rows) :
            TiedLabel(HAVE_RF, f, epl_teams) =>
                /\ RowsOfLabel(f) # {}
                /\ \A x \in RowsOfLabel(f) :
                      _norm_team(x.team_name) = LexFirst(BestNames(HAVE_RF, f, epl_teams))


----------------------------------------------------------------------------
(* main of init_fpl_elements.py on a catalog that holds an item without a  *)
(* team or an item without identifiers.                                    *)

InitFplMore ==
    /\ pc = "main"
    /\ fuzz \in BOOLEAN
    /\ jellyfish = FALSE
    /\ unidecode = FALSE
    /\ \E th \in FplThresholdPairs : team_threshold = th[1] /\ global_threshold = th[2]
    /\ teams = << TeamRow("1", S_Leeds), TeamRow("2", S_Tottenham),
                  TeamRow("3", S_Everton) >>
    /\ fpl_elements \in SeqsNoRepeat(ElementPool, 1, MaxElements)
    /\ players_list \in {q \in SeqsNoRepeat(CatalogItems \cup ExtraItems, 1, MaxCat) :
                            Range(q) \cap ExtraItems # {}}
    /\ df = <<>>
    /\ catalog = <<>>
    /\ fi = 0
    /\ results = <<>>
    /\ unmatched = <<>>
    /\ fpl_elements_enriched = <<>>
    /\ LinkIdle
    /\ NormIdle

SpecFplMore == InitFplMore /\ [][NextFpl]_vars

\* a run of build_xrefs, or a run of main on such a catalog
InitBlocks == InitXrefs \/ InitFplMore

NextBlocks == NextXrefs \/ NextFpl

SpecBlocks == InitBlocks /\ [][NextBlocks]_vars


----------------------------------------------------------------------------
(* Claims about players whose team did not resolve.                        *)

\* the team label of the FBref player f normalizes to the name of no team
\* of team_xref (lines 162-166: fbref_team_id_canon is NaN)
UnresolvedFb(f) ==
    \A k \in DOMAIN team_xref :
        _norm_team(team_xref[k].team_name) # _norm_team(f.fbref_team)

----------------------------------------------------------------------------
(* score_player and name_variants called on their own.                     *)

S_BenAMee == <<"B","e","n"," ","A"," ","M","e","e">>
S_BenVanMee == <<"B","e","n"," ","v","a","n"," ","M","e","e">>
S_DeLaMee == <<"D","e"," ","l","a"," ","M","e","e">>
S_De == <<"D","e">>

\* the names passed as pred_name and to name_variants: names of one, two
\* and three words, with a middle initial, with linking particles, of
\* nothing but a particle, with an accent, the empty name and None
CallNames ==
    { S_BenMee, S_BenMoe, S_BenMoeSlash, S_BenAMee, S_BenVanMee, S_DeLaMee,
      S_De, S_Mee, <<>>, None }

\* the items whose rows are passed as cand_row
CallItems ==
    CatalogItems \cup ExtraItems \cup
        { Item(S_BenAMee, "fb6", "us6", S_Leeds, S_Leeds),
          Item(S_BenVanMee, "fb7", "us7", S_Leeds, S_Leeds),
          Item(S_Mee, "fb8", "", S_Leeds, <<>>),
          Item(<<>>, "fb9", "", S_Leeds, <<>>) }

InitCalls ==
    /\ pc \in {"score_player", "name_variants"}
    /\ fuzz \in BOOLEAN
    /\ jellyfish \in BOOLEAN
    /\ unidecode \in BOOLEAN
    /\ \E a \in CallNames, it \in CallItems :
          normalized = << [name |-> a, item |-> it] >>
    /\ team_threshold = 0 /\ global_threshold = 0
    /\ teams = <<>> /\ fpl_elements = <<>> /\ players_list = <<>>
    /\ df = <<>> /\ catalog = <<>> /\ fi = 0 /\ results = <<>>
    /\ unmatched = <<>> /\ fpl_elements_enriched = <<>>
    /\ LinkIdle

\* score_player(name, cand_row), cand_row being the row flatten_players
\* makes of the item
CallScorePlayer ==
    /\ pc = "score_player"
    /\ normalized' =
          Append(normalized,
                 score_player([fz |-> fuzz, jf |-> jellyfish, ud |-> unidecode],
                              normalized[1].name,
                              FlatRow([fz |-> fuzz, jf |-> jellyfish, ud |-> unidecode],
                                      normalized[1].item)))
    /\ pc' = "scored"
    /\ UNCHANGED <<linkVars, fplVars>>

\* name_variants(name)
CallNameVariants ==
    /\ pc = "name_variants"
    /\ normalized' = Append(normalized, name_variants(unidecode, normalized[1].name))
    /\ pc' = "variants"
    /\ UNCHANGED <<linkVars, fplVars>>

NextCalls ==
    \/ CallScorePlayer
    \/ CallNameVariants

SpecCalls == InitCalls /\ [][NextCalls]_vars

----------------------------------------------------------------------------
(* Claims about score_player.                                              *)

\* the libraries of the state
StateLib == [fz |-> fuzz, jf |-> jellyfish, ud |-> unidecode]

\* the variants score_player goes through for the row r
VariantsOf(r) == IF r.variants # <<>> THEN Range(r.variants) ELSE {r.player_name}

\* the highest score_pair of the name a against the variants of the row r
MaxPair(lib, a, r) ==
    CHOOSE m \in {score_pair(lib, a, v) : v \in VariantsOf(r)} :
        \A v \in VariantsOf(r) : score_pair(lib, a, v) <= m

\* the bonus as the claim states it: 0.05 for equal surnames that are not
\* empty, 0.03 for equal first initials, 0.03 for equal phonetic codes of
\* the surnames that are not empty
ClaimedBonus(lib, a, r) ==
    LET p == first_last(lib.ud, a)
        c == first_last(lib.ud, r.player_name)
    IN  (IF p[2] # <<>> /\ p[2] = c[2] THEN 500000 ELSE 0)
        + (IF p[1] # <<>> /\ c[1] # <<>> /\ p[1][1] = c[1][1] THEN 300000 ELSE 0)
        + (IF surname_phonetic(lib.jf, p[2]) # <<>>
              /\ surname_phonetic(lib.jf, p[2]) = surname_phonetic(lib.jf, c[2])
           THEN 300000 ELSE 0)

\* the score returned is min(1, highest score_pair + bonus) and lies in 0..1
ScoreAsClaimed(lib, a, r, ret) ==
    /\ ret.score = Min(10000000, MaxPair(lib, a, r) + ClaimedBonus(lib, a, r))
    /\ ret.score >= 0
    /\ ret.score <= 10000000

\* the score of score_player is the one of the claim, for every name and row
ScoreOnly ==
    pc = "scored" =>
        ScoreAsClaimed(StateLib, normalized[1].name,
                       FlatRow(StateLib, normalized[1].item), normalized[2])

\* the variant returned is one of the highest score_pair
VariantAsClaimed(lib, a, r, ret) ==
    ret.score > 0 =>
        /\ ret.best_var \in VariantsOf(r)
        /\ score_pair(lib, a, ret.best_var) = MaxPair(lib, a, r)

\* C25: score_player returns min(1, the highest score_pair over the
\* variants + bonus), a value of 0..1, and the variant it reports is one
\* that attains the highest score_pair
C25_ScorePlayer ==
    pc = "scored" =>
        /\ ScoreAsClaimed(StateLib, normalized[1].name,
                          FlatRow(StateLib, normalized[1].item), normalized[2])
        /\ VariantAsClaimed(StateLib, normalized[1].name,
                            FlatRow(StateLib, normalized[1].item), normalized[2])


----------------------------------------------------------------------------
(* Claims about name_variants.                                             *)

\* every variant is a text that is not empty, and a name that normalizes
\* to nothing has no variant
VariantsNotEmpty ==
    pc = "variants" =>
        /\ \A k \in DOMAIN normalized[2] : normalized[2][k] # <<>>
        /\ norm(unidecode, normalized[1].name) = <<>> => normalized[2] = <<>>

\* C26: name_variants returns, for a name whose normalized form is not
\* empty, a list that holds that normalized form, linking particles
\* included; no variant is empty; an empty name and None have no variant
C26_VariantsHoldBase ==
    pc = "variants" =>
        /\ norm(unidecode, normalized[1].name) # <<>> =>
              norm(unidecode, normalized[1].name) \in Range(normalized[2])
        /\ \A k \in DOMAIN normalized[2] : normalized[2][k] # <<>>
        /\ norm(unidecode, normalized[1].name) = <<>> => normalized[2] = <<>>


----------------------------------------------------------------------------
(* C27: the outcome of a target does not depend on the other targets.      *)

\* what the loop of build_player_xref can record for row r when it is the
\* only row decided against the buckets
AloneVerdicts(r) ==
    {LinkVerdict(o.rec) : o \in Decide(r, fb_by_team, HAVE_RF, strict, fuzzy)}

\* the records written so far for row r of up
RecordsOf(r) ==
    {rec \in Range(xrows) \cup Range(umiss) :
        /\ rec.understat_player_id = r.understat_player_id
        /\ rec.understat_team_id = r.understat_team_id}

\* what match_player_row returns for row r of df when it is the only row
\* matched against the catalog
AloneFplVerdict(r) ==
    FplVerdict(match_player_row(CurLib, r.player_name_raw, TeamNameOf(r), catalog,
                                team_threshold, global_threshold))

\* every row decided so far is recorded as it would be were it alone
LinkResultsStandAlone ==
    pc \in {"loop", "done", "failed"} =>
        /\ Len(xrows) + Len(umiss) = i
        /\ \A k \in 1..i :
            /\ RecordsOf(up[k]) # {}
            /\ \A rec \in RecordsOf(up[k]) : LinkVerdict(rec) \in AloneVerdicts(up[k])

\* every element matched so far has the result it would have were it alone
FplResultsStandAlone ==
    pc \in {"match", "written"} =>
        /\ Len(results) = fi
        /\ \A k \in 1..fi : FplVerdict(results[k]) = AloneFplVerdict(df[k])

\* C27: the outcome recorded for a target (accepted candidate, method,
\* confidence, or unmatched reason) is the one the decision gives for that
\* target alone against the buckets (the catalog) and the thresholds,
\* wherever in the order the target stands and whatever was decided before
\* it; and no pass of either loop changes the buckets, the targets or the
\* catalog.
C27_TargetIndependence ==
    /\ [](LinkResultsStandAlone /\ FplResultsStandAlone)
    /\ [][ /\ LoopStep => fb_by_team' = fb_by_team /\ up' = up
           /\ (pc = "match" /\ fi' = fi + 1) => catalog' = catalog /\ df' = df ]_vars

\* two rows of up of different players have been linked to the same FBref
\* player, the second after the first
C27_Witness ==
    /\ pc = "done"
    /\ \E a, b \in DOMAIN xrows :
         /\ a < b
         /\ xrows[a].fbref_player_id = xrows[b].fbref_player_id
         /\ xrows[a].understat_player_id # xrows[b].understat_player_id


----------------------------------------------------------------------------
(* C28: one canonical identity per FBref player.                           *)

\* an identifier is minted for every accepted row and for nothing else, and
\* no two rows of xrows carry the same identifier
IdsMintedPerRow ==
    /\ minted = Len(xrows)
    /\ \A a, b \in DOMAIN xrows :
         xrows[a].canonical_player_id = xrows[b].canonical_player_id => a = b
    /\ \A k \in DOMAIN umiss : "canonical_player_id" \notin DOMAIN umiss[k]

\* C28: canonical_player_id values are minted for accepted rows only, every
\* accepted row has an identifier of its own, and no two rows of different
\* Understat players carry the same fbref_player_id, so that no FBref player
\* stands under two canonical identifiers.
C28_SingleCanonicalIdentity ==
    /\ IdsMintedPerRow
    /\ \A a, b \in DOMAIN xrows :
         xrows[a].understat_player_id # xrows[b].understat_player_id
            => xrows[a].fbref_player_id # xrows[b].fbref_player_id


----------------------------------------------------------------------------
(* C29: the unmatched diagnostics of the FPL loops.                        *)

\* the pass of the matching loop over row fi + 1 of df
FplStep == pc = "match" /\ fi' = fi + 1

\* whenever a row is added to unmatched, it is the only one added and it is
\* the row of the element just matched
UnmatchedAtMostOnce ==
    [][ FplStep =>
          \/ unmatched' = unmatched
          \/ /\ Len(unmatched') = Len(unmatched) + 1
             /\ SubSeq(unmatched', 1, Len(unmatched)) = unmatched
             /\ unmatched'[Len(unmatched')].player_name_raw
                   = df[fi + 1].player_name_raw ]_vars

\* C29: a pass of the matching loop adds the element to unmatched if and only
\* if match_player_row returned method none for it, and then adds it once; an
\* element accepted with method team_block or global is not added, whatever
\* identifiers the matched catalog entry carries.
C29_UnmatchedIffNone ==
    [][ FplStep =>
          IF results'[fi + 1].method = "none"
          THEN /\ Len(unmatched') = Len(unmatched) + 1
               /\ SubSeq(unmatched', 1, Len(unmatched)) = unmatched
               /\ unmatched'[Len(unmatched')].player_name_raw
                     = df[fi + 1].player_name_raw
          ELSE unmatched' = unmatched ]_vars


----------------------------------------------------------------------------
(* C30: what the global stage of match_player_row can accept.              *)

\* element k was accepted with method global although the catalog holds
\* rows of its team
GlobalDespiteBlock(k) ==
    /\ results[k].method = "global"
    /\ TeamBlock(CurLib, TeamNameOf(df[k]), catalog) # <<>>

\* the catalog row accepted for element k is a row of the team of the element
AcceptedInBlock(k) ==
    /\ norm(unidecode, TeamNameOf(df[k])) # <<>>
    /\ norm(unidecode, results[k].matched_team) = norm(unidecode, TeamNameOf(df[k]))

\* C30: with global_threshold >= team_threshold, an element that is accepted
\* with method global while its team has rows in the catalog is matched to a
\* row outside the block of its team (a player of another team or of none):
\* no row of the team of the element is accepted through the global stage.
C30_GlobalIsCrossTeam ==
    pc \in {"match", "written"} /\ global_threshold >= team_threshold =>
        \A k \in DOMAIN results : GlobalDespiteBlock(k) => ~AcceptedInBlock(k)

\* with the default thresholds an element whose team has rows in the catalog
\* has been accepted with method global
C30_Witness ==
    /\ pc = "written"
    /\ global_threshold >= team_threshold
    /\ \E k \in DOMAIN results : GlobalDespiteBlock(k) /\ ~AcceptedInBlock(k)

\* with global_threshold < team_threshold a row of the team of the element
\* has been accepted through the global stage
SameTeamThroughGlobal ==
    /\ pc = "written"
    /\ global_threshold < team_threshold
    /\ \E k \in DOMAIN results : GlobalDespiteBlock(k) /\ AcceptedInBlock(k)

====
